---------------------------- MODULE Spec2Model ----------------------------
(***************************************************************************)
(* Brokerage protocol client of Agent_Trading_Company.                     *)
(*                                                                         *)
(*   KISClient     (src/kis/client.py)    token manager, throttle, retry   *)
(*   KISWebSocket  (src/kis/ws_client.py) reconnecting streaming client    *)
(*                                                                         *)
(* The client runs as cooperative asyncio tasks on one event loop: the     *)
(* code between two awaits is atomic, so every action below is one such    *)
(* stretch of code, from the resumption of a task to its next suspension.  *)
(*                                                                         *)
(* The code uses time.monotonic() only in differences: the distance to     *)
(* _last_request_time and the length of a sleep.  The model keeps exactly  *)
(* these (in milliseconds): elapsed, the time since _last_request_time,    *)
(* and for each sleeping task the time left to sleep.  datetime.now() is   *)
(* kept as a clock, in seconds.                                            *)
(***************************************************************************)
EXTENDS Integers, Sequences, FiniteSets, TLC

\* ------------------------------------------------------------------ bounds
NTasks == 2
MaxCalls == 1
MaxWall == 120

\* ------------------------------------------------- constants of the program
REQUEST_INTERVAL == 250
MAX_RETRIES == 3
RETRY_BACKOFF == 500
TOKEN_MARGIN == 60

Tasks == 1 .. NTasks
\* the clocks advance in steps of half a throttle interval / one margin
MonoStep == REQUEST_INTERVAL \div 2
WallStep == TOKEN_MARGIN
\* the clock step of the specification of whole operations
RestStep == 4 * RETRY_BACKOFF
\* what the upstream may answer
Statuses == {200, 404, 503}
RestStatuses == {200, 404, 500}
TokenIds == {1, 2}
ExpiresIn == {TOKEN_MARGIN, 2 * TOKEN_MARGIN}
\* callable operations
RestOps == {"price", "daily_price", "balance", "available_cash", "buy", "sell"}
NoToken == 0
NoTime == -1

VARIABLES
    token,              \* KISClient._token (NoToken = None)
    token_expires,      \* KISClient._token_expires (NoTime = None), wall seconds
    token_lock,         \* KISClient._token_lock: holder and FIFO waiters
    rate_lock,          \* KISClient._rate_lock
    elapsed,            \* time.monotonic() - KISClient._last_request_time, ms,
                        \* kept up to REQUEST_INTERVAL (the code compares it
                        \* with nothing larger)
    wall,               \* datetime.now()
    task,               \* per task: the coroutine's position and locals, and
                        \* the history of its latest call: how the signing
                        \* request and the token acquisition of an order
                        \* ended, the headers of each request sent with
                        \* the header dict of _get_headers,
                        \* the rt_cd of the answer it parsed and the
                        \* message code of the failure it raised for it
    refresh,            \* history of the current token-refresh episode, and
                        \* when the cached token was stored and the
                        \* lifetime the server declared for it
    throttleLog,        \* history: was there a pass, distance of the two latest
    unthrottled,        \* history: kinds of request sent without a throttle pass
    watchlist,          \* config.watchlist, the list object handed to run()
    ws,                 \* KISWebSocket._ws (NoSocket = None), a socket's number
    subscribed,         \* KISWebSocket._subscribed
    approval_key,       \* KISWebSocket._approval_key is set
    run,                \* the run() task: position, list iterator, code in flight
    rtask,              \* per code: the subscribe([code]) task of the add route
    conn,               \* history of the latest socket: how many were opened,
                        \* is it open, what ended the connection before it,
                        \* subscribe messages sent on it per code, the
                        \* watchlist when the initial subscribe pass returned,
                        \* the time since the last connection ended,
                        \* whether the callback raised on it, whether run()
                        \* was cancelled, and how far a close() call has got
    arg,                \* the argument of the latest call made one at a time
    result,             \* what that call returned or did
    trading_mode,       \* config.trading_mode, fixed when the Config is built
    connections,        \* WebSocketManager.connections
    endpoint,           \* per dashboard client: how far websocket_endpoint has
                        \* got for it, and whether the client is still there
    bcast,              \* per caller of broadcast(): the position of its
                        \* latest call, the iterator's index, `disconnected`,
                        \* and the history of the call: the connections sent
                        \* to, those whose send failed, and those registered
                        \* since the call began
    agent               \* one agent: BaseAgent.status, last_error and the
                        \* position of run()

restVars == <<token, token_expires, token_lock, rate_lock, elapsed,
              wall, task, refresh, throttleLog, unthrottled>>

wsVars == <<watchlist, ws, subscribed, approval_key, run, rtask, conn>>

fnVars == <<arg, result>>

cfgVars == <<trading_mode>>

appVars == <<connections, endpoint, bcast, agent>>

vars == <<restVars, wsVars, fnVars, cfgVars, appVars>>

\* ------------------------------------------------------------ asyncio.Lock
FreeLock == [holder |-> 0, waiters |-> <<>>]

AcquireAlways(l, t) == [l EXCEPT !.holder = t]

\* `async with lock` entry: taken at once when free and nobody queues,
\* otherwise the caller joins the FIFO queue and suspends.
Acquire(l, t) ==
    IF l.holder = 0 /\ l.waiters = <<>>
    THEN [l EXCEPT !.holder = t]
    ELSE [l EXCEPT !.waiters = Append(@, t)]

ReleaseUnwoken(l) == [l EXCEPT !.holder = 0]

\* `async with lock` exit: the first waiter, if any, is the next holder.
Release(l) ==
    IF l.waiters = <<>>
    THEN [l EXCEPT !.holder = 0]
    ELSE [holder |-> Head(l.waiters), waiters |-> Tail(l.waiters)]

\* ------------------------------------------------------------ task records
NoOut == [type |-> "none", val |-> 0]

\* the HASH values the signing endpoint may answer with; NoHash = no such key
HashIds == {1, 2}
NoHash == 0

\* the modes Config accepts and validate() lets through
TradingModes == {"paper", "live"}

\* the registry: a dict keyed by (operation, mode)
TR_IDS ==
    (<<"buy", "live">> :> "TTTC0802U") @@
    (<<"buy", "paper">> :> "VTTC0802U") @@
    (<<"sell", "live">> :> "TTTC0801U") @@
    (<<"sell", "paper">> :> "VTTC0801U") @@
    (<<"modify", "live">> :> "TTTC0803U") @@
    (<<"modify", "paper">> :> "VTTC0803U") @@
    (<<"balance", "live">> :> "TTTC8434R") @@
    (<<"balance", "paper">> :> "VTTC8434R") @@
    (<<"available_cash", "live">> :> "TTTC8908R") @@
    (<<"available_cash", "paper">> :> "VTTC8908R") @@
    (<<"price", "any">> :> "FHKST01010100") @@
    (<<"daily_price", "any">> :> "FHKST01010400")

\* `TR_IDS[key]`: the value, or KeyError when the dict has no such key
Subscript(dict, key) ==
    IF key \in DOMAIN dict
    THEN [state |-> "return", tr_id |-> dict[key], error |-> ""]
    ELSE [state |-> "raise", tr_id |-> "", error |-> "KeyError"]

get_tr_id_exact(operation, mode) == Subscript(TR_IDS, <<operation, mode>>)

\* `if (operation, "any") in TR_IDS: return TR_IDS[(operation, "any")]`, else
\* `return TR_IDS[(operation, mode)]`
get_tr_id(operation, mode) ==
    IF <<operation, "any">> \in DOMAIN TR_IDS
    THEN Subscript(TR_IDS, <<operation, "any">>)
    ELSE Subscript(TR_IDS, <<operation, mode>>)

\* the operation name each method hands to get_tr_id
TrIdKey(o) == IF o = "available_cash" THEN "balance" ELSE o

\* the header dict: no dict yet, and the one _get_headers returns
NoHeaders == [authorization |-> NoToken, tr_id |-> "", hashkey |-> NoHash]

Headers(tk, tr_id) ==
    [authorization |-> tk, tr_id |-> tr_id, hashkey |-> NoHash]

IdleTask ==
    [pc |-> "idle", op |-> "none", kind |-> "none", calls |-> 0,
     attempt |-> 0, sleep |-> 0, resps |-> <<>>, waits |-> <<>>,
     nThrottle |-> 0, nSent |-> 0, passed |-> FALSE, owed |-> FALSE,
     hashkey |-> NoHash, headers |-> NoHeaders, wire |-> <<>>,
     signing |-> "none", bearer |-> "none", reply |-> "", msg |-> "",
     out |-> NoOut]

\* a call ends: the coroutine returns or raises to its caller
Finish(r, type, val) ==
    [r EXCEPT !.pc = "idle", !.out = [type |-> type, val |-> val]]

NoRefresh ==
    [batch |-> {}, sent |-> 0, got |-> {}, failed |-> FALSE, stale |-> FALSE,
     issued |-> NoTime, expires_in |-> 0]

NoPass == [any |-> FALSE, gap |-> NoTime]


\* a new _request_with_retry call: last_exc = None, attempt = 0
StartRequest(r, k) ==
    [r EXCEPT !.pc = "rr_throttle", !.kind = k, !.attempt = 0,
              !.resps = <<>>, !.waits = <<>>, !.nThrottle = 0, !.nSent = 0]

\* the first stretch of an operation, up to the first call that can suspend
StartOp(r, o) ==
    LET r1 == [r EXCEPT !.op = o, !.out = NoOut, !.owed = FALSE,
                        !.hashkey = NoHash, !.headers = NoHeaders,
                        !.wire = <<>>, !.signing = "none",
                        !.bearer = "none", !.reply = "", !.msg = ""]
    IN  CASE o = "get_token"        -> [r1 EXCEPT !.pc = "gt_enter"]
          [] o = "request"          -> StartRequest(r1, "raw")
          [] o \in {"buy", "sell"}  -> StartRequest(r1, "hashkey")
          [] OTHER                  -> [r1 EXCEPT !.pc = "gt_enter"]

\* --------------------------------------------------------------- get_token
\* `self._token and self._token_expires and datetime.now() < self._token_expires`
CachedTokenFresh ==
    token # NoToken /\ token_expires # NoTime /\ wall < token_expires

RecheckSkipped == FALSE

\* the same test again, once the lock is held
RecheckFresh == CachedTokenFresh

GetHeadersOfPaper(r, tk) ==
    Headers(tk, get_tr_id(TrIdKey(r.op), "paper").tr_id)

\* `tr_id = get_tr_id(..., self.config.trading_mode)` and
\* `headers = await self._get_headers(tr_id)`, get_token having returned tk
GetHeaders(r, tk) ==
    Headers(tk, get_tr_id(TrIdKey(r.op), trading_mode).tr_id)

\* _place_order: `headers = await self._get_headers(tr_id)` and
\* `headers["hashkey"] = hashkey`
OrderHeaders(r, tk) ==
    [GetHeaders(r, tk) EXCEPT !.hashkey = r.hashkey]

\* get_token returned tk: _get_headers goes on to the request, a direct
\* caller gets the token
AfterToken(r, tk) ==
    CASE r.op = "get_token" -> Finish(r, "return", tk)
      [] r.op \in {"buy", "sell"} ->
            StartRequest([r EXCEPT !.headers = OrderHeaders(r, tk),
                                   !.bearer = "ok"], "order")
      [] OTHER ->
            StartRequest([r EXCEPT !.headers = GetHeaders(r, tk)], r.op)

\* `await self.client.post(ENDPOINTS["token"], ...)`: sent with no throttle pass
PostTokenRequest(r) ==
    [r EXCEPT !.pc = "tok_post", !.passed = FALSE]

SentKinds(r, k) ==
    IF r.passed THEN unthrottled ELSE unthrottled \cup {k}

\* get_token up to its first suspension: fast path, or the lock
GT_Enter(t) ==
    /\ task[t].pc = "gt_enter"
    /\ IF CachedTokenFresh
       THEN /\ task' = [task EXCEPT ![t] = AfterToken(@, token)]
            /\ UNCHANGED <<token_lock, refresh, unthrottled>>
       ELSE /\ token_lock' = Acquire(token_lock, t)
            /\ IF token_lock = FreeLock
               THEN /\ task' = [task EXCEPT ![t] = PostTokenRequest(@)]
                    /\ refresh' = [NoRefresh EXCEPT
                                      !.batch = {t}, !.sent = 1,
                                      !.issued = refresh.issued,
                                      !.expires_in = refresh.expires_in]
                    /\ unthrottled' = SentKinds(task[t], "token")
               ELSE /\ task' = [task EXCEPT ![t].pc = "tok_wait"]
                    /\ refresh' = [refresh EXCEPT !.batch = @ \cup {t}]
                    /\ UNCHANGED unthrottled
    /\ UNCHANGED <<token, token_expires, rate_lock, elapsed, wall, throttleLog>>
    /\ UNCHANGED <<wsVars, fnVars, cfgVars, appVars>>

\* a waiter is handed the lock and re-checks the cache
GT_Acquired(t) ==
    /\ task[t].pc = "tok_wait"
    /\ token_lock.holder = t
    /\ IF RecheckFresh
       THEN /\ token_lock' = Release(token_lock)
            /\ task' = [task EXCEPT ![t] = AfterToken(@, token)]
            /\ refresh' = [refresh EXCEPT !.got = @ \cup {token}]
            /\ UNCHANGED unthrottled
       ELSE /\ task' = [task EXCEPT ![t] = PostTokenRequest(@)]
            /\ refresh' = [refresh EXCEPT !.sent = @ + 1]
            /\ unthrottled' = SentKinds(task[t], "token")
            /\ UNCHANGED token_lock
    /\ UNCHANGED <<token, token_expires, rate_lock, elapsed, wall, throttleLog>>
    /\ UNCHANGED <<wsVars, fnVars, cfgVars, appVars>>

ExpiryNoMargin(now, expires_in) == now + expires_in

\* `datetime.now() + timedelta(seconds=token_data.expires_in - 60)`
Expiry(now, expires_in) == now + (expires_in - TOKEN_MARGIN)

\* the refresh succeeds: the upstream issues token tk, valid for life seconds
GT_RefreshOk(t, tk, life) ==
    /\ task[t].pc = "tok_post"
    /\ token' = tk
    /\ token_expires' = Expiry(wall, life)
    /\ token_lock' = Release(token_lock)
    /\ task' = [task EXCEPT ![t] = AfterToken(@, tk)]
    /\ refresh' = [refresh EXCEPT !.got = @ \cup {tk},
                                  !.issued = wall, !.expires_in = life,
                                  !.stale = @ \/ ~(wall < token_expires')]
    /\ UNCHANGED <<rate_lock, elapsed, wall, throttleLog, unthrottled>>
    /\ UNCHANGED <<wsVars, fnVars, cfgVars, appVars>>

GT_RefreshFailLocked(t) ==
    /\ task[t].pc = "tok_post"
    /\ task' = [task EXCEPT ![t] = Finish([@ EXCEPT !.bearer = "failed"], "raise", 0)]
    /\ refresh' = [refresh EXCEPT !.failed = TRUE]
    /\ UNCHANGED <<token, token_expires, token_lock, rate_lock, elapsed, wall,
                   throttleLog, unthrottled>>
    /\ UNCHANGED <<wsVars, fnVars, cfgVars, appVars>>

\* the refresh fails (transport error, or raise_for_status on a non-2xx):
\* the exception leaves the `async with`, which releases the lock
GT_RefreshFail(t) ==
    /\ task[t].pc = "tok_post"
    /\ token_lock' = Release(token_lock)
    /\ task' = [u \in Tasks |->
                  IF u = t
                  THEN Finish([task[u] EXCEPT !.bearer = "failed"], "raise", 0)
                  ELSE IF task[u].pc = "tok_wait"
                       THEN [task[u] EXCEPT !.owed = TRUE]
                       ELSE task[u]]
    /\ refresh' = [refresh EXCEPT !.failed = TRUE]
    /\ UNCHANGED <<token, token_expires, rate_lock, elapsed, wall, throttleLog, unthrottled>>
    /\ UNCHANGED <<wsVars, fnVars, cfgVars, appVars>>

\* datetime.now() advances
WallTick ==
    /\ wall + WallStep <= MaxWall
    /\ wall' = wall + WallStep
    /\ refresh' = [refresh EXCEPT !.stale =
                     @ \/ (/\ token_lock # FreeLock
                           /\ refresh.got # {}
                           /\ token_expires # NoTime
                           /\ ~(wall' < token_expires))]
    /\ UNCHANGED <<token, token_expires, token_lock, rate_lock,
                   elapsed, task, throttleLog, unthrottled>>
    /\ UNCHANGED <<wsVars, fnVars, cfgVars, appVars>>

\* ------------------------------------------------- _throttle, _request_with_retry
\* `wait = self._RETRY_BACKOFF * (2 ** attempt)`
BackoffLinear(attempt) == RETRY_BACKOFF * (attempt + 1)

Backoff(attempt) == RETRY_BACKOFF * (2 ^ attempt)

\* `if resp.status_code < 500: return resp`
ReturnedOnlyOnSuccess(status) == status < 400

ReturnedOnClientError(status) == status >= 400 /\ status < 500

ReturnedAtOnce(status) == status < 500

\* `for attempt in range(self._MAX_RETRIES)`: does another iteration follow
OneAttemptMore(attempt) == attempt < MAX_RETRIES

MoreAttempts(attempt) == attempt + 1 < MAX_RETRIES

Min(a, b) == IF a < b THEN a ELSE b
Max(a, b) == IF a > b THEN a ELSE b

\* `self._last_request_time = time.monotonic()` and the end of `async with`,
\* by the holder of lock state l: the pass is complete
ThrottlePassed(t, l) ==
    /\ elapsed' = 0
    /\ rate_lock' = Release(l)
    /\ throttleLog' = [any |-> TRUE,
                       gap |-> IF throttleLog.any THEN elapsed ELSE NoTime]
    /\ task' = [task EXCEPT ![t].pc = "rr_send", ![t].nThrottle = @ + 1,
                            ![t].passed = TRUE]

\* `if elapsed < self._REQUEST_INTERVAL`
NeverSleep(e) == FALSE

MustSleep(e) == e < REQUEST_INTERVAL

\* under the lock: `elapsed = now - self._last_request_time`, sleep the rest
ThrottleLocked(t, l) ==
    IF MustSleep(elapsed)
    THEN /\ task' = [task EXCEPT ![t].pc = "thr_sleep",
                          ![t].sleep = REQUEST_INTERVAL - elapsed]
         /\ rate_lock' = l
         /\ UNCHANGED <<elapsed, throttleLog>>
    ELSE ThrottlePassed(t, l)

\* _throttle up to its first suspension
RR_Throttle(t) ==
    /\ task[t].pc = "rr_throttle"
    /\ IF rate_lock = FreeLock
       THEN ThrottleLocked(t, Acquire(rate_lock, t))
       ELSE /\ rate_lock' = Acquire(rate_lock, t)
            /\ task' = [task EXCEPT ![t].pc = "thr_wait"]
            /\ UNCHANGED <<elapsed, throttleLog>>
    /\ UNCHANGED <<token, token_expires, token_lock, wall, refresh,
                   unthrottled>>
    /\ UNCHANGED <<wsVars, fnVars, cfgVars, appVars>>

\* a waiter is handed the rate lock
RR_ThrottleAcquired(t) ==
    /\ task[t].pc = "thr_wait"
    /\ rate_lock.holder = t
    /\ ThrottleLocked(t, rate_lock)
    /\ UNCHANGED <<token, token_expires, token_lock, wall, refresh,
                   unthrottled>>
    /\ UNCHANGED <<wsVars, fnVars, cfgVars, appVars>>

\* `await asyncio.sleep(self._REQUEST_INTERVAL - elapsed)` is over
RR_ThrottleWake(t) ==
    /\ task[t].pc = "thr_sleep"
    /\ task[t].sleep = 0
    /\ ThrottlePassed(t, rate_lock)
    /\ UNCHANGED <<token, token_expires, token_lock, wall, refresh,
                   unthrottled>>
    /\ UNCHANGED <<wsVars, fnVars, cfgVars, appVars>>

\* `await self.client.request(method, url, **kwargs)`: the request goes out
RR_Send(t) ==
    /\ task[t].pc = "rr_send"
    /\ unthrottled' = SentKinds(task[t], task[t].kind)
    /\ task' = [task EXCEPT ![t].pc = "rr_resp", ![t].nSent = @ + 1,
                            ![t].passed = FALSE,
                            ![t].wire = IF task[t].kind \notin {"hashkey", "raw"}
                                          THEN Append(@, task[t].headers)
                                          ELSE @]
    /\ UNCHANGED <<token, token_expires, token_lock, rate_lock,
                   elapsed, wall, refresh, throttleLog>>
    /\ UNCHANGED <<wsVars, fnVars, cfgVars, appVars>>

\* _request_with_retry is left: its locals are gone
Leave(r) ==
    [r EXCEPT !.attempt = 0, !.sleep = 0, !.resps = <<>>, !.waits = <<>>,
              !.nThrottle = 0, !.nSent = 0]

\* the HASH values a response may hold: only a 2xx answer of the signing
\* endpoint is read for one, and it may lack the key
Answers(kind, status) ==
    IF kind = "hashkey" /\ status \in 200 .. 299
    THEN HashIds \cup {NoHash}
    ELSE {NoHash}

\* the JSON envelope of an answer: rt_cd with msg_cd / msg1; NoEnvelope where
\* the body is not read for one
NoEnvelope == [rt_cd |-> "", msg_cd |-> ""]

Envelopes(kind, status) ==
    IF kind \notin {"hashkey", "raw"} /\ status \in 200 .. 299
    THEN {[rt_cd |-> "0", msg_cd |-> "MCA00000"],
          [rt_cd |-> "1", msg_cd |-> "EGW00201"]}
    ELSE {NoEnvelope}

SignedAnyway(status, hash) == TRUE

\* _get_hashkey: `resp.raise_for_status()` and `resp.json()["HASH"]` pass
SignedOk(status, hash) == status \in 200 .. 299 /\ hash # NoHash

\* what the caller of _request_with_retry does with the response
\* the operations with `if data.get("rt_cd") != "0": raise RuntimeError(...)`
Gated(o) == o \in {"price", "daily_price", "balance", "available_cash"}

\* raise_for_status passed and the body is parsed: the gate, then the result
AfterBody(r, status, env) ==
    LET r1 == [Leave(r) EXCEPT !.reply = env.rt_cd]
    IN  IF Gated(r.op) /\ env.rt_cd # "0"
        THEN Finish([r1 EXCEPT !.msg = env.msg_cd], "raise", status)
        ELSE Finish(r1, "return", status)

AfterRequest(r, status, hash, env) ==
    CASE r.op = "request" -> Finish(r, "return", status)
      [] r.kind = "hashkey" ->
            \* _get_hashkey returns the hash or raises, then _get_headers
            LET r1 == [Leave(r) EXCEPT !.signing =
                          IF status \in 200 .. 299 /\ hash \in HashIds
                          THEN "ok" ELSE "failed"]
            IN  IF SignedOk(status, hash)
                THEN [r1 EXCEPT !.pc = "gt_enter", !.hashkey = hash]
                ELSE Finish(r1, "raise", status)
      [] OTHER ->
            \* raise_for_status, then the body is parsed
            IF status \in 200 .. 299
            THEN AfterBody(r, status, env)
            ELSE Finish(Leave(r), "raise", status)

\* the exception leaves _request_with_retry and the operation that called it
RequestRaises(r, status) ==
    IF r.op = "request"
    THEN Finish(r, "raise", status)
    ELSE Finish([Leave(r) EXCEPT !.signing =
                    IF r.kind = "hashkey" THEN "failed" ELSE @],
                "raise", status)

\* a response arrives
RR_Response(t, status) ==
    /\ task[t].pc = "rr_resp"
    /\ LET r == [task[t] EXCEPT !.resps = Append(@, status)]
       IN  IF ReturnedAtOnce(status)
           THEN \E hash \in Answers(r.kind, status),
                   env \in Envelopes(r.kind, status) :
                    task' = [task EXCEPT ![t] =
                               AfterRequest(r, status, hash, env)]
           ELSE task' = [task EXCEPT ![t] =
                           [r EXCEPT !.pc = "rr_backoff",
                                     !.waits = Append(@, Backoff(r.attempt)),
                                     !.sleep = Backoff(r.attempt)]]
    /\ UNCHANGED <<token, token_expires, token_lock, rate_lock,
                   elapsed, wall, refresh, throttleLog,
                   unthrottled>>
    /\ UNCHANGED <<wsVars, fnVars, cfgVars, appVars>>

RR_NetworkErrorRetried(t) ==
    /\ task[t].pc = "rr_resp"
    /\ task' = [task EXCEPT ![t].pc = "rr_backoff",
                            ![t].waits = Append(@, Backoff(task[t].attempt)),
                            ![t].sleep = Backoff(task[t].attempt)]
    /\ UNCHANGED <<token, token_expires, token_lock, rate_lock,
                   elapsed, wall, refresh, throttleLog,
                   unthrottled>>
    /\ UNCHANGED <<wsVars, fnVars, cfgVars, appVars>>

\* client.request raises (connect error, timeout): nothing catches it
RR_NetworkError(t) ==
    /\ task[t].pc = "rr_resp"
    /\ task' = [task EXCEPT ![t] = RequestRaises(@, 0)]
    /\ UNCHANGED <<token, token_expires, token_lock, rate_lock,
                   elapsed, wall, refresh, throttleLog,
                   unthrottled>>
    /\ UNCHANGED <<wsVars, fnVars, cfgVars, appVars>>

RR_BackoffWakeUnthrottled(t) ==
    /\ task[t].pc = "rr_backoff"
    /\ task[t].sleep = 0
    /\ IF MoreAttempts(task[t].attempt)
       THEN task' = [task EXCEPT ![t].pc = "rr_send", ![t].attempt = @ + 1]
       ELSE task' = [task EXCEPT ![t] =
                       RequestRaises(@, @.resps[Len(@.resps)])]
    /\ UNCHANGED <<token, token_expires, token_lock, rate_lock,
                   elapsed, wall, refresh, throttleLog,
                   unthrottled>>
    /\ UNCHANGED <<wsVars, fnVars, cfgVars, appVars>>

\* `await asyncio.sleep(wait)` is over: next iteration, or `raise last_exc`
RR_BackoffWake(t) ==
    /\ task[t].pc = "rr_backoff"
    /\ task[t].sleep = 0
    /\ IF MoreAttempts(task[t].attempt)
       THEN task' = [task EXCEPT ![t].pc = "rr_throttle", ![t].attempt = @ + 1]
       ELSE task' = [task EXCEPT ![t] =
                       RequestRaises(@, @.resps[Len(@.resps)])]
    /\ UNCHANGED <<token, token_expires, token_lock, rate_lock,
                   elapsed, wall, refresh, throttleLog,
                   unthrottled>>
    /\ UNCHANGED <<wsVars, fnVars, cfgVars, appVars>>

Sleeping(r) == r.pc \in {"thr_sleep", "rr_backoff"}

\* time.monotonic() advances by d
MonoTick(d) ==
    /\ elapsed' = Min(elapsed + d, REQUEST_INTERVAL)
    /\ task' = [t \in Tasks |->
                  IF Sleeping(task[t])
                  THEN [task[t] EXCEPT !.sleep = Max(@ - d, 0)]
                  ELSE task[t]]
    /\ UNCHANGED <<token, token_expires, token_lock, rate_lock, wall,
                   refresh, throttleLog, unthrottled>>
    /\ UNCHANGED <<wsVars, fnVars, cfgVars, appVars>>

\* ------------------------------------------------------------------- calls
\* the histories of token refreshes grow with the calls, so these are counted
CanCall(t) == task[t].pc = "idle" /\ task[t].calls < MaxCalls

CallGetToken(t) ==
    /\ CanCall(t)
    /\ task' = [task EXCEPT ![t] = StartOp([@ EXCEPT !.calls = @ + 1], "get_token")]
    /\ UNCHANGED <<token, token_expires, token_lock, rate_lock,
                   elapsed, wall, refresh, throttleLog,
                   unthrottled>>
    /\ UNCHANGED <<wsVars, fnVars, cfgVars, appVars>>

CallRequest(t) ==
    /\ task[t].pc = "idle"
    /\ task' = [task EXCEPT ![t] = StartOp(@, "request")]
    /\ UNCHANGED <<token, token_expires, token_lock, rate_lock,
                   elapsed, wall, refresh, throttleLog,
                   unthrottled>>
    /\ UNCHANGED <<wsVars, fnVars, cfgVars, appVars>>

CallOp(t, o) ==
    /\ CanCall(t)
    /\ task' = [task EXCEPT ![t] = StartOp([@ EXCEPT !.calls = @ + 1], o)]
    /\ UNCHANGED <<token, token_expires, token_lock, rate_lock,
                   elapsed, wall, refresh, throttleLog,
                   unthrottled>>
    /\ UNCHANGED <<wsVars, fnVars, cfgVars, appVars>>

\* ======================================================= Streaming Client
\* KISWebSocket.run() is one task; the watchlist routes run on the same event
\* loop and touch the list object that run() iterates; the add route starts a
\* subscribe([code]) task of its own.

Codes == {"005930", "000660"}

MaxSockets == 2

NoSocket == 0

\* `await asyncio.sleep(5)`, seconds
RECONNECT_DELAY == 5

Range(q) == {q[i] : i \in DOMAIN q}

NoSent == [c \in Codes |-> 0]

NoTask == [pc |-> "none", sock |-> NoSocket]

\* top of `while True`: _connect_and_stream() up to its first suspension;
\* _get_approval_key() returns the cached key without suspending
StartConnection(key) ==
    [pc |-> IF key THEN "connecting" ELSE "approval", idx |-> 0, code |-> "none",
     sleep |-> 0]

\* `for code in stock_codes` from list index idx on, up to the next send:
\* codes found in _subscribed are passed over without suspending
SubscribeLoop(idx) ==
    LET J == {j \in idx + 1 .. Len(watchlist) : watchlist[j] \notin subscribed}
    IN  IF J = {}
        THEN [pc |-> "reading", idx |-> Len(watchlist), code |-> "none",
              sleep |-> 0]
        ELSE LET j == CHOOSE k \in J : \A m \in J : k <= m
             IN  [pc |-> "sub_send", idx |-> j, code |-> watchlist[j],
                  sleep |-> 0]

\* history: the initial subscribe pass has returned
PassReturned(r, c) ==
    IF r.pc = "reading"
    THEN [c EXCEPT !.passed = TRUE, !.target = Range(watchlist)]
    ELSE c

OnExceptionKeepSet ==
    /\ ws' = NoSocket
    /\ subscribed' = subscribed
    /\ run' = [pc |-> "backoff", idx |-> 0, code |-> "none",
               sleep |-> RECONNECT_DELAY]
    /\ conn' = [conn EXCEPT !.open = FALSE, !.ended = "failure", !.since = 0]

\* `except Exception` of run(): forget the socket, clear the set, sleep(5)
OnException ==
    /\ ws' = NoSocket
    /\ subscribed' = {}
    /\ run' = [pc |-> "backoff", idx |-> 0, code |-> "none",
               sleep |-> RECONNECT_DELAY]
    /\ conn' = [conn EXCEPT !.open = FALSE, !.ended = "failure", !.since = 0]

WS_ApprovalOk ==
    /\ run.pc = "approval"
    /\ approval_key' = TRUE
    /\ run' = [run EXCEPT !.pc = "connecting"]
    /\ UNCHANGED <<watchlist, ws, subscribed, rtask, conn>>
    /\ UNCHANGED <<restVars, fnVars, cfgVars, appVars>>

WS_ApprovalFail ==
    /\ run.pc = "approval"
    /\ OnException
    /\ UNCHANGED <<watchlist, approval_key, rtask>>
    /\ UNCHANGED <<restVars, fnVars, cfgVars, appVars>>

\* ws_connect() succeeded: `self._ws = ws`, then subscribe(stock_codes)
WS_ConnectOk ==
    /\ run.pc = "connecting"
    /\ conn.n < MaxSockets
    /\ ws' = conn.n + 1
    /\ run' = SubscribeLoop(0)
    /\ conn' = PassReturned(run', [n |-> conn.n + 1, open |-> TRUE,
                                   after |-> conn.ended, ended |-> "none",
                                   sent |-> NoSent, passed |-> FALSE,
                                   target |-> {}, since |-> 0,
                                   raised |-> FALSE, cancelled |-> FALSE,
                                   close |-> conn.close])
    /\ UNCHANGED <<watchlist, subscribed, approval_key, rtask>>
    /\ UNCHANGED <<restVars, fnVars, cfgVars, appVars>>

WS_ConnectFail ==
    /\ run.pc = "connecting"
    /\ OnException
    /\ UNCHANGED <<watchlist, approval_key, rtask>>
    /\ UNCHANGED <<restVars, fnVars, cfgVars, appVars>>

\* `await self._ws.send(...)` returned: `self._subscribed.add(code)`
WS_SendOk ==
    /\ run.pc = "sub_send"
    /\ conn.open
    /\ subscribed' = subscribed \cup {run.code}
    /\ conn' = [conn EXCEPT !.sent[run.code] = @ + 1]
    /\ run' = [run EXCEPT !.pc = "sub_sleep"]
    /\ UNCHANGED <<watchlist, ws, approval_key, rtask>>
    /\ UNCHANGED <<restVars, fnVars, cfgVars, appVars>>

WS_SendFail ==
    /\ run.pc = "sub_send"
    /\ OnException
    /\ UNCHANGED <<watchlist, approval_key, rtask>>
    /\ UNCHANGED <<restVars, fnVars, cfgVars, appVars>>

\* `await asyncio.sleep(0.1)` is over: the list iterator moves on; the next
\* send is `self._ws.send`, an AttributeError when close() has set _ws = None
WS_SubscribeWake ==
    /\ run.pc = "sub_sleep"
    /\ IF ws = NoSocket /\ SubscribeLoop(run.idx).pc = "sub_send"
       THEN OnException
       ELSE /\ run' = SubscribeLoop(run.idx)
            /\ conn' = PassReturned(run', conn)
            /\ UNCHANGED <<ws, subscribed>>
    /\ UNCHANGED <<watchlist, approval_key, rtask>>
    /\ UNCHANGED <<restVars, fnVars, cfgVars, appVars>>

\* `async for message in ws` yields a price frame: `await self.on_price(price)`;
\* the upstream sends the prices of the codes subscribed on this socket
WS_Tick ==
    /\ run.pc = "reading"
    /\ conn.open
    /\ \E c \in Codes : conn.sent[c] >= 1
    /\ run' = [run EXCEPT !.pc = "dispatch"]
    /\ UNCHANGED <<watchlist, ws, subscribed, approval_key, rtask, conn>>
    /\ UNCHANGED <<restVars, fnVars, cfgVars, appVars>>

\* the callback returned
WS_CallbackDone ==
    /\ run.pc = "dispatch"
    /\ run' = [run EXCEPT !.pc = "reading"]
    /\ UNCHANGED <<watchlist, ws, subscribed, approval_key, rtask, conn>>
    /\ UNCHANGED <<restVars, fnVars, cfgVars, appVars>>

WS_CallbackRaiseEscapes ==
    /\ run.pc = "dispatch"
    /\ OnException
    /\ UNCHANGED <<watchlist, approval_key, rtask>>
    /\ UNCHANGED <<restVars, fnVars, cfgVars, appVars>>

\* the callback raised: `except Exception` logs it, the loop goes on
WS_CallbackRaise ==
    /\ run.pc = "dispatch"
    /\ run' = [run EXCEPT !.pc = "reading"]
    /\ conn' = [conn EXCEPT !.raised = TRUE]
    /\ UNCHANGED <<watchlist, ws, subscribed, approval_key, rtask>>
    /\ UNCHANGED <<restVars, fnVars, cfgVars, appVars>>

\* `async for` raises: the connection broke
WS_ReadFail ==
    /\ run.pc = "reading"
    /\ OnException
    /\ UNCHANGED <<watchlist, approval_key, rtask>>
    /\ UNCHANGED <<restVars, fnVars, cfgVars, appVars>>

\* `async for` ends: the socket was closed in order, by the server or by
\* close(); _connect_and_stream() returns and `while True` goes round
WS_OrderlyClose ==
    /\ run.pc = "reading"
    /\ run' = StartConnection(approval_key)
    /\ conn' = [conn EXCEPT !.open = FALSE, !.ended = "closed", !.since = 0]
    /\ UNCHANGED <<watchlist, ws, subscribed, approval_key, rtask>>
    /\ UNCHANGED <<restVars, fnVars, cfgVars, appVars>>

\* `await asyncio.sleep(5)` is over
WS_ReconnectWake ==
    /\ run.pc = "backoff"
    /\ run.sleep = 0
    /\ run' = StartConnection(approval_key)
    /\ UNCHANGED <<watchlist, ws, subscribed, approval_key, rtask, conn>>
    /\ UNCHANGED <<restVars, fnVars, cfgVars, appVars>>

WS_CancelCaught ==
    /\ ~conn.cancelled
    /\ ws' = NoSocket
    /\ subscribed' = {}
    /\ run' = [pc |-> "backoff", idx |-> 0, code |-> "none",
               sleep |-> RECONNECT_DELAY]
    /\ conn' = [conn EXCEPT !.cancelled = TRUE, !.open = FALSE, !.since = 0]
    /\ UNCHANGED <<watchlist, approval_key, rtask>>
    /\ UNCHANGED <<restVars, fnVars, cfgVars, appVars>>

\* task.cancel() by handle_shutdown: CancelledError, no Exception, is raised
\* where run() is suspended and leaves run(); on its way out the
\* `async with ws_connect(...)` closes the socket
WS_Cancel ==
    /\ ~conn.cancelled
    /\ run' = [pc |-> "cancelled", idx |-> 0, code |-> "none", sleep |-> 0]
    /\ conn' = [conn EXCEPT !.cancelled = TRUE, !.open = FALSE,
                            !.ended = IF conn.open THEN "cancelled" ELSE @]
    /\ UNCHANGED <<watchlist, ws, subscribed, approval_key, rtask>>
    /\ UNCHANGED <<restVars, fnVars, cfgVars, appVars>>

\* close(): `if self._ws: await self._ws.close()`
WS_CloseBegin ==
    /\ conn.close = "none"
    /\ conn' = IF ws = NoSocket
               THEN [conn EXCEPT !.close = "done"]
               ELSE [conn EXCEPT !.close = "closing", !.open = FALSE]
    /\ UNCHANGED <<watchlist, ws, subscribed, approval_key, run, rtask>>
    /\ UNCHANGED <<restVars, fnVars, cfgVars, appVars>>

\* close(): `self._ws = None`
WS_CloseEnd ==
    /\ conn.close = "closing"
    /\ ws' = NoSocket
    /\ conn' = [conn EXCEPT !.close = "done"]
    /\ UNCHANGED <<watchlist, subscribed, approval_key, run, rtask>>
    /\ UNCHANGED <<restVars, fnVars, cfgVars, appVars>>

\* RECONNECT_DELAY seconds pass: the sleep of run() runs down; the history
\* measures the time without a connection
WS_Clock ==
    /\ run.pc \in {"backoff", "approval", "connecting"}
    /\ run' = [run EXCEPT !.sleep = 0]
    /\ conn' = [conn EXCEPT !.since = RECONNECT_DELAY]
    /\ UNCHANGED <<watchlist, ws, subscribed, approval_key, rtask>>
    /\ UNCHANGED <<restVars, fnVars, cfgVars, appVars>>

\* POST /api/watchlist: append, then create_task(_kis_ws.subscribe([code]))
Route_Add(c) ==
    /\ c \notin Range(watchlist)
    /\ rtask[c].pc = "none"
    /\ watchlist' = Append(watchlist, c)
    /\ rtask' = [rtask EXCEPT ![c] = [pc |-> "start", sock |-> NoSocket]]
    /\ UNCHANGED <<ws, subscribed, approval_key, run, conn>>
    /\ UNCHANGED <<restVars, fnVars, cfgVars, appVars>>

\* DELETE /api/watchlist/{code}: list.remove
Route_Remove(c) ==
    /\ c \in Range(watchlist)
    /\ watchlist' = SelectSeq(watchlist, LAMBDA x : x # c)
    /\ UNCHANGED <<ws, subscribed, approval_key, run, rtask, conn>>
    /\ UNCHANGED <<restVars, fnVars, cfgVars, appVars>>

\* the route's subscribe([c]) task runs up to its send
RT_Start(c) ==
    /\ rtask[c].pc = "start"
    /\ rtask' = [rtask EXCEPT ![c] =
                   IF ws = NoSocket \/ c \in subscribed
                   THEN NoTask
                   ELSE [pc |-> "send", sock |-> ws]]
    /\ UNCHANGED <<watchlist, ws, subscribed, approval_key, run, conn>>
    /\ UNCHANGED <<restVars, fnVars, cfgVars, appVars>>

\* its send returned: `self._subscribed.add(code)`, then sleep(0.1)
RT_SendOk(c) ==
    /\ rtask[c].pc = "send"
    /\ rtask[c].sock = conn.n /\ conn.open
    /\ subscribed' = subscribed \cup {c}
    /\ conn' = [conn EXCEPT !.sent[c] = @ + 1]
    /\ rtask' = [rtask EXCEPT ![c].pc = "sleep"]
    /\ UNCHANGED <<watchlist, ws, approval_key, run>>
    /\ UNCHANGED <<restVars, fnVars, cfgVars, appVars>>

\* its send raised, the socket being gone: the task ends
RT_SendFail(c) ==
    /\ rtask[c].pc = "send"
    /\ ~(rtask[c].sock = conn.n /\ conn.open)
    /\ rtask' = [rtask EXCEPT ![c] = NoTask]
    /\ UNCHANGED <<watchlist, ws, subscribed, approval_key, run, conn>>
    /\ UNCHANGED <<restVars, fnVars, cfgVars, appVars>>

RT_Wake(c) ==
    /\ rtask[c].pc = "sleep"
    /\ rtask' = [rtask EXCEPT ![c] = NoTask]
    /\ UNCHANGED <<watchlist, ws, subscribed, approval_key, run, conn>>
    /\ UNCHANGED <<restVars, fnVars, cfgVars, appVars>>

\* ------------------------------------------- subscribe(), one call at a time
MaxSubLen == 2

CodeLists == UNION {[1 .. n -> Codes] : n \in 0 .. MaxSubLen}

RECURSIVE SubscribeAllAgain(_, _, _)
SubscribeAllAgain(q, sock, S) ==
    IF sock = NoSocket \/ q = <<>>
    THEN [set |-> S, msgs |-> <<>>]
    ELSE LET r == SubscribeAllAgain(Tail(q), sock, S \cup {Head(q)})
         IN  [set |-> r.set, msgs |-> <<Head(q)>> \o r.msgs]

\* subscribe(q) from its call to its return, nothing else running meanwhile:
\* the tracking set and the subscribe messages sent, in order
RECURSIVE SubscribeAll(_, _, _)
SubscribeAll(q, sock, S) ==
    IF sock = NoSocket \/ q = <<>>
    THEN [set |-> S, msgs |-> <<>>]
    ELSE IF Head(q) \in S
         THEN SubscribeAll(Tail(q), sock, S)
         ELSE LET r == SubscribeAll(Tail(q), sock, S \cup {Head(q)})
              IN  [set |-> r.set, msgs |-> <<Head(q)>> \o r.msgs]

NoCall == [made |-> FALSE, sock |-> NoSocket, had |-> {}, msgs |-> <<>>,
           prev |-> [made |-> FALSE, q |-> <<>>, msgs |-> <<>>]]

Sub_Call(q) ==
    /\ LET r == SubscribeAll(q, ws, subscribed)
       IN  /\ subscribed' = r.set
           /\ result' = [made |-> TRUE, sock |-> ws, had |-> subscribed,
                         msgs |-> r.msgs,
                         prev |-> [made |-> result.made, q |-> arg,
                                   msgs |-> result.msgs]]
    /\ arg' = q
    /\ UNCHANGED <<watchlist, ws, approval_key, run, rtask, conn>>
    /\ UNCHANGED <<restVars, cfgVars, appVars>>

\* `self._ws = ws` on a new connection
Sub_Open ==
    /\ ws = NoSocket
    /\ ws' = conn.n + 1
    /\ arg' = <<>>
    /\ result' = NoCall
    /\ UNCHANGED <<watchlist, subscribed, approval_key, run, rtask, conn>>
    /\ UNCHANGED <<restVars, cfgVars, appVars>>

\* the `except Exception` of run()
Sub_Lost ==
    /\ ws # NoSocket
    /\ ws' = NoSocket
    /\ subscribed' = {}
    /\ arg' = <<>>
    /\ result' = NoCall
    /\ UNCHANGED <<watchlist, approval_key, run, rtask, conn>>
    /\ UNCHANGED <<restVars, cfgVars, appVars>>

\* ---------------------------------------------------- _parse_price_message
\* A frame is a text: here a sequence of pieces, each the separator "|", the
\* separator "^", or a piece of text without separators.
F_STOCK_CODE == 0
F_TIME == 1
F_PRICE == 2
F_SIGN == 3
F_CHANGE == 4
F_CHANGE_RATE == 5
F_OPEN == 7
F_HIGH == 8
F_LOW == 9
F_VOLUME == 13

TR_ID == "H0STCNT0"

\* str.split(sep): the texts between the separators, empty ones included
Split(raw, sep) ==
    LET at == {i \in 1 .. Len(raw) : raw[i] = sep}
        cut(k) == IF k = 0 THEN 0
                  ELSE IF k > Cardinality(at) THEN Len(raw) + 1
                  ELSE CHOOSE i \in at : Cardinality({j \in at : j < i}) = k - 1
    IN  [k \in 1 .. Cardinality(at) + 1 |->
            SubSeq(raw, cut(k - 1) + 1, cut(k) - 1)]

\* sep.join(texts)
RECURSIVE Join(_, _)
Join(texts, sep) ==
    IF texts = <<>> THEN <<>>
    ELSE IF Len(texts) = 1 THEN Head(texts)
    ELSE Head(texts) \o <<sep>> \o Join(Tail(texts), sep)

NoTick == [state |-> "none"]

ParsesAnyTrId(raw) ==
    LET parts == Split(raw, "|")
    IN  IF Len(parts) < 4 THEN NoTick
        ELSE IF parts[1] # <<"0">> THEN NoTick
        ELSE LET fields == Split(parts[4], "^")
             IN  IF Len(fields) <= F_VOLUME THEN NoTick
                 ELSE [state |-> "tick",
                       tick |-> [stock_code |-> fields[F_STOCK_CODE + 1],
                                 price |-> fields[F_PRICE + 1],
                                 change_sign |-> fields[F_SIGN + 1],
                                 change_amount |-> fields[F_CHANGE + 1],
                                 change_rate |-> fields[F_CHANGE_RATE + 1],
                                 open |-> fields[F_OPEN + 1],
                                 high |-> fields[F_HIGH + 1],
                                 low |-> fields[F_LOW + 1],
                                 volume |-> fields[F_VOLUME + 1]]]

\* _parse_price_message(raw): the tick dict, or None
ParsePriceMessage(raw) ==
    LET parts == Split(raw, "|")
    IN  IF Len(parts) < 4 THEN NoTick
        ELSE IF parts[1] # <<"0">> \/ parts[2] # <<TR_ID>> THEN NoTick
        ELSE LET fields == Split(parts[4], "^")
             IN  IF Len(fields) <= F_VOLUME THEN NoTick
                 ELSE [state |-> "tick",
                       tick |-> [stock_code |-> fields[F_STOCK_CODE + 1],
                                 price |-> fields[F_PRICE + 1],
                                 change_sign |-> fields[F_SIGN + 1],
                                 change_amount |-> fields[F_CHANGE + 1],
                                 change_rate |-> fields[F_CHANGE_RATE + 1],
                                 open |-> fields[F_OPEN + 1],
                                 high |-> fields[F_HIGH + 1],
                                 low |-> fields[F_LOW + 1],
                                 volume |-> fields[F_VOLUME + 1]]]

\* the frames tried: 3 to 5 segments; the first "0", "1" or empty; the second
\* the price transaction id or another; a payload of MaxFields - 2 to
\* MaxFields fields, each a text of its own, one of them empty in some frames
MaxFields == 15

FieldText(i, style) ==
    CASE style = "plain" -> <<ToString(i)>>
      [] style = "long" -> <<ToString(i), ToString(i + 1)>>
      [] OTHER -> IF i = F_PRICE THEN <<>> ELSE <<ToString(i)>>

Payloads ==
    {[i \in 1 .. n |-> FieldText(i - 1, style)] :
        n \in MaxFields - 2 .. MaxFields, style \in {"plain", "long", "gap"}}

Frames ==
    {[segs |-> SubSeq(<<e, t, <<"001">>, Join(f, "^"), <<"x">>>>, 1, n),
      fields |-> f] :
        e \in {<<"0">>, <<"1">>, <<>>},
        t \in {<<TR_ID>>, <<"H0STASP0">>},
        f \in Payloads,
        n \in 3 .. 5}

Pending == [state |-> "pending"]

\* a frame arrives and is parsed
Parse ==
    /\ result = Pending
    /\ result' = ParsePriceMessage(arg.raw)
    /\ UNCHANGED arg
    /\ UNCHANGED <<restVars, wsVars, cfgVars, appVars>>

\* ------------------------------------------------------- get_tr_id, one call
\* what a caller may pass: the registered operations and modes, names the
\* registry does not hold, and other spellings of registered ones
Operations ==
    {"buy", "sell", "modify", "balance", "available_cash", "price",
     "daily_price", "cancel", "BUY", ""}
Modes == {"paper", "live", "any", "demo", "PAPER", ""}

\* get_tr_id(operation, mode) is called; the registry as the call left it
\* is recorded with the outcome
LookUp ==
    /\ result = Pending
    /\ result' = [out |-> get_tr_id(arg.operation, arg.mode),
                  registry |-> TR_IDS]
    /\ UNCHANGED arg
    /\ UNCHANGED <<restVars, wsVars, cfgVars, appVars>>

\* ---------------------------------------------- get_daily_prices, the answer
MaxRows == 3
MaxCount == 3

\* a key the upstream dict does not hold
NoField == "<absent>"

\* the rows of output2: dicts with the required keys, prdy_ctrt optional
UpstreamRows ==
    [stck_bsop_date : {"20250103", "20250102"}, prdy_ctrt : {"0.72", NoField}]

RowLists == UNION {[1 .. n -> UpstreamRows] : n \in 0 .. MaxRows}

\* `DailyPrice(**item)`: the keys as given, prdy_ctrt defaults to ""
DailyPrice(item) ==
    [item EXCEPT !.prdy_ctrt = IF @ = NoField THEN "" ELSE @]

SliceAll(items, count) == items

\* `items[:count]`
Slice(items, count) ==
    IF count >= 0
    THEN SubSeq(items, 1, Min(count, Len(items)))
    ELSE SubSeq(items, 1, Max(Len(items) + count, 0))

\* get_daily_prices once the answer is parsed: the gate, then
\* `[DailyPrice(**item) for item in items[:count]]`
DailyPrices(data, count) ==
    IF data.rt_cd # "0"
    THEN [state |-> "raise", rows |-> <<>>]
    ELSE LET items == Slice(data.output2, count)
         IN  [state |-> "return",
              rows |-> [i \in 1 .. Len(items) |-> DailyPrice(items[i])]]

GetDailyPrices ==
    /\ result = Pending
    /\ result' = DailyPrices(arg.data, arg.count)
    /\ UNCHANGED arg
    /\ UNCHANGED <<restVars, wsVars, cfgVars, appVars>>

\* --------------------------------------------------- get_balance, the answer
MaxTotals == 2
MaxHoldings == 2

\* a totals record of output2: each key present or not
TotalsRecords ==
    [tot_evlu_amt : {"1000", "0", NoField},
     evlu_pfls_smtl_amt : {"-50", "0", NoField},
     dnca_tot_amt : {"500", NoField}]

\* `{}`
EmptyDict ==
    [tot_evlu_amt |-> NoField, evlu_pfls_smtl_amt |-> NoField,
     dnca_tot_amt |-> NoField]

\* output2 as the upstream sends it: a JSON array of totals records, one
\* bare object, or no such key
AsList(q) == [type |-> "list", list |-> q, dict |-> EmptyDict]
AsDict(T) == [type |-> "dict", list |-> <<>>, dict |-> T]
Absent == [type |-> "absent", list |-> <<>>, dict |-> EmptyDict]

TotalsShapes ==
    {AsList(q) : q \in UNION {[1 .. n -> TotalsRecords] : n \in 0 .. MaxTotals}}
        \cup {AsDict(T) : T \in TotalsRecords}
        \cup {Absent}

\* `data.get("output2", [{}])`
Output2(data) ==
    IF data.output2.type = "absent" THEN AsList(<<EmptyDict>>) ELSE data.output2

\* the rows of output1
HoldingRows == [pdno : Codes, hldg_qty : {"10"}]

HoldingLists == UNION {[1 .. n -> HoldingRows] : n \in 0 .. MaxHoldings}

\* `BalanceItem(**item)`: every field named here is required and kept as given
BalanceItem(item) == [pdno |-> item.pdno, hldg_qty |-> item.hldg_qty]

\* `dict.get(key, default)`
Get(dict, key, default) ==
    IF dict[key] = NoField THEN default ELSE dict[key]

TotalBlockOfList(totals) ==
    IF totals.list # <<>> THEN totals.list[1] ELSE EmptyDict

\* `totals[0] if isinstance(totals, list) and totals else totals`
TotalBlock(totals) ==
    IF totals.type = "list" /\ totals.list # <<>>
    THEN totals.list[1]
    ELSE totals.dict

\* the block is the list itself: `total_block.get` is an AttributeError
NoGet(totals) == totals.type = "list" /\ totals.list = <<>>

\* get_balance once the answer has passed the gate
AccountBalance(data) ==
    LET totals == Output2(data)
    IN  IF NoGet(totals)
        THEN [state |-> "raise", items |-> <<>>,
              total_evlu_amt |-> "", total_evlu_pfls_amt |-> ""]
        ELSE LET total_block == TotalBlock(totals)
             IN  [state |-> "return",
                  items |-> [i \in 1 .. Len(data.output1) |->
                               BalanceItem(data.output1[i])],
                  total_evlu_amt |-> Get(total_block, "tot_evlu_amt", "0"),
                  total_evlu_pfls_amt |->
                      Get(total_block, "evlu_pfls_smtl_amt", "0")]

\* `int(text)` on the amounts the answers hold
IntOf(text) == IF text = "500" THEN 500 ELSE 0

\* get_available_cash once the answer has passed the gate
AvailableCash(data) ==
    LET totals == Output2(data)
    IN  IF NoGet(totals)
        THEN [state |-> "raise", cash |-> 0]
        ELSE [state |-> "return",
              cash |-> IntOf(Get(TotalBlock(totals), "dnca_tot_amt", "0"))]

GetBalance ==
    /\ result = Pending
    /\ arg.method = "get_balance"
    /\ result' = AccountBalance(arg)
    /\ UNCHANGED arg
    /\ UNCHANGED <<restVars, wsVars, cfgVars, appVars>>

GetAvailableCash ==
    /\ result = Pending
    /\ arg.method = "get_available_cash"
    /\ result' = AvailableCash(arg)
    /\ UNCHANGED arg
    /\ UNCHANGED <<restVars, wsVars, cfgVars, appVars>>

\* ------------------------------------- TradeExecutorAgent._execute_single_order
\* the "action" of an order the LLM decided on
OrderActions == {"buy", "sell", "BUY", "hold", ""}

\* str.lower()
Lower(a) == IF a = "BUY" THEN "buy" ELSE a

\* what kis.buy / kis.sell does: _place_order returns an OrderResponse with
\* the rt_cd of the answer, whatever it is, or an exception leaves it
OrderOutcomes ==
    {[type |-> "return", rt_cd |-> c, error |-> ""] : c \in {"0", "1", ""}}
    \cup {[type |-> "raise", rt_cd |-> "", error |-> e] :
             e \in {"HTTPStatusError", "ConnectError"}}

\* what ws_manager.broadcast does: returns, or raises out of its removals
BroadcastOutcomes == {"return", "raise"}

TradeExecuted(kis) ==
    [type |-> "trade_executed", status |-> "filled", response_code |-> kis.rt_cd]

\* the dict _execute_single_order returns, with the orders it placed and the
\* events it broadcast
ExecuteSingleOrderResult(a) ==
    LET action == Lower(a.order.action)
    IN  IF action \notin {"buy", "sell"}
        THEN [result |-> "skipped", placed |-> <<>>, events |-> <<>>]
        ELSE IF a.kis.type = "raise"
        THEN [result |-> "failed", placed |-> <<action>>, events |-> <<>>]
        ELSE IF ~a.ws_manager
        THEN [result |-> "success", placed |-> <<action>>, events |-> <<>>]
        ELSE [result |-> IF a.broadcast = "raise" THEN "failed" ELSE "success",
              placed |-> <<action>>,
              events |-> <<TradeExecuted(a.kis)>>]

ExecuteSingleOrder ==
    /\ result = Pending
    /\ result' = ExecuteSingleOrderResult(arg)
    /\ UNCHANGED arg
    /\ UNCHANGED <<restVars, wsVars, cfgVars, appVars>>

\* ------------------------------------------------------- WebSocketManager
MaxClients == 2
Clients == 1 .. MaxClients

\* the callers of broadcast(): an agent's run loop and the price callback
Callers == {"agent", "tick"}

NoBroadcast ==
    [pc |-> "idle", idx |-> 0, cur |-> 0, disconnected |-> <<>>,
     sent |-> {}, failed |-> {}, through |-> {}]

Has(list, s) == \E i \in 1 .. Len(list) : list[i] = s

Registered(list) == {list[i] : i \in 1 .. Len(list)}

\* list.remove(s) on a list that holds s
Remove(list, s) == SelectSeq(list, LAMBDA x : x # s)

\* `for ws in disconnected: self.connections.remove(ws)`: list.remove raises
\* ValueError for a connection that is no longer in the list
RECURSIVE RemoveEach(_, _)
RemoveEach(list, dis) ==
    IF dis = <<>>
    THEN [list |-> list, raised |-> FALSE]
    ELSE IF ~Has(list, Head(dis))
    THEN [list |-> list, raised |-> TRUE]
    ELSE RemoveEach(Remove(list, Head(dis)), Tail(dis))

\* broadcast() from one suspension to the next: the iterator over the live
\* list yields the element at its index, if there is one, and the send to it
\* begins; otherwise the loop is over and the removals run
Advance(b, list) ==
    IF b.idx < Len(list)
    THEN [b |-> [b EXCEPT !.pc = "send", !.cur = list[b.idx + 1],
                          !.idx = @ + 1],
          list |-> list]
    ELSE LET r == RemoveEach(list, b.disconnected)
         IN  [b |-> [b EXCEPT !.pc = IF r.raised THEN "raised" ELSE "done",
                              !.cur = 0],
              list |-> r.list]

\* a call of broadcast() begins
BroadcastCall(list) ==
    Advance([NoBroadcast EXCEPT !.through = Registered(list)], list)

\* the calls in progress lose sight of a connection that left the list
Track(bc, list) ==
    [c \in Callers |-> [bc[c] EXCEPT !.through = @ \cap Registered(list)]]

InBroadcast(c) == bcast[c].pc = "send"

\* `await ws.send_text(message)` returns
BC_SendOk(c) ==
    /\ InBroadcast(c)
    /\ endpoint[bcast[c].cur].alive
    /\ LET a == Advance([bcast[c] EXCEPT !.sent = @ \cup {bcast[c].cur}],
                        connections)
       IN  /\ connections' = a.list
           /\ bcast' = Track([bcast EXCEPT ![c] = a.b], a.list)
    /\ UNCHANGED <<endpoint, agent>>
    /\ UNCHANGED <<restVars, wsVars, fnVars, cfgVars>>

\* `await ws.send_text(message)` raises: the client is gone
BC_SendFail(c) ==
    /\ InBroadcast(c)
    /\ ~endpoint[bcast[c].cur].alive
    /\ LET a == Advance([bcast[c] EXCEPT
                            !.disconnected = Append(@, bcast[c].cur),
                            !.failed = @ \cup {bcast[c].cur}],
                        connections)
       IN  /\ connections' = a.list
           /\ bcast' = Track([bcast EXCEPT ![c] = a.b], a.list)
    /\ UNCHANGED <<endpoint, agent>>
    /\ UNCHANGED <<restVars, wsVars, fnVars, cfgVars>>

\* on_price_tick: the price callback calls broadcast("price_update", ...)
Tick_Broadcast ==
    /\ ~InBroadcast("tick")
    /\ LET a == BroadcastCall(connections)
       IN  /\ connections' = a.list
           /\ bcast' = Track([bcast EXCEPT !["tick"] = a.b], a.list)
    /\ UNCHANGED <<endpoint, agent>>
    /\ UNCHANGED <<restVars, wsVars, fnVars, cfgVars>>

\* ------------------------------------------------------ websocket_endpoint
NoClient == [pc |-> "none", alive |-> FALSE]

\* a dashboard client opens /ws: connect() awaits websocket.accept()
EP_Connect(s) ==
    /\ endpoint[s].pc = "none"
    /\ endpoint' = [endpoint EXCEPT ![s] = [pc |-> "accepting", alive |-> TRUE]]
    /\ UNCHANGED <<connections, bcast, agent>>
    /\ UNCHANGED <<restVars, wsVars, fnVars, cfgVars>>

\* accept() returned: `self.connections.append(websocket)`, then the
\* endpoint waits in receive_text()
EP_Accepted(s) ==
    /\ endpoint[s].pc = "accepting"
    /\ connections' = Append(connections, s)
    /\ endpoint' = [endpoint EXCEPT ![s].pc = "open"]
    /\ UNCHANGED <<bcast, agent>>
    /\ UNCHANGED <<restVars, wsVars, fnVars, cfgVars>>

\* the client goes away
EP_ClientGone(s) ==
    /\ endpoint[s].pc = "open"
    /\ endpoint[s].alive
    /\ endpoint' = [endpoint EXCEPT ![s].alive = FALSE]
    /\ UNCHANGED <<connections, bcast, agent>>
    /\ UNCHANGED <<restVars, wsVars, fnVars, cfgVars>>

\* receive_text() raises WebSocketDisconnect: disconnect() removes the
\* connection, or raises ValueError when it is no longer in the list
EP_Disconnect(s) ==
    /\ endpoint[s].pc = "open"
    /\ ~endpoint[s].alive
    /\ IF Has(connections, s)
       THEN /\ connections' = Remove(connections, s)
            /\ endpoint' = [endpoint EXCEPT ![s].pc = "closed"]
       ELSE /\ endpoint' = [endpoint EXCEPT ![s].pc = "raised"]
            /\ UNCHANGED connections
    /\ bcast' = Track(bcast, connections')
    /\ UNCHANGED agent
    /\ UNCHANGED <<restVars, wsVars, fnVars, cfgVars>>

\* ------------------------------------------------------------ BaseAgent.run
NewAgent == [pc |-> "top", status |-> "idle", last_error |-> FALSE]

\* where run() waits for a broadcast of agent_status_changed or new_report
BroadcastPoints == {"b_closed", "b_running", "b_status", "b_report", "b_error"}

\* `await self._ws_manager.broadcast(...)` begins, run() being at pc p after
AgentBroadcasts(ag) ==
    LET a == BroadcastCall(connections)
    IN  /\ agent' = ag
        /\ connections' = a.list
        /\ bcast' = Track([bcast EXCEPT !["agent"] = a.b], a.list)

\* the top of `while True` with no market active
AG_MarketClosed ==
    /\ agent.pc = "top"
    /\ IF agent.status # "idle"
       THEN AgentBroadcasts([agent EXCEPT !.status = "idle", !.pc = "b_closed"])
       ELSE /\ agent' = [agent EXCEPT !.pc = "sleep"]
            /\ UNCHANGED <<connections, bcast>>
    /\ UNCHANGED endpoint
    /\ UNCHANGED <<restVars, wsVars, fnVars, cfgVars>>

\* the top of `while True` with a market active: status "running" and its
\* broadcast, outside the try
AG_MarketOpen ==
    /\ agent.pc = "top"
    /\ AgentBroadcasts([agent EXCEPT !.status = "running", !.pc = "b_running"])
    /\ UNCHANGED endpoint
    /\ UNCHANGED <<restVars, wsVars, fnVars, cfgVars>>

\* a broadcast returned
AG_BroadcastReturned ==
    /\ agent.pc \in BroadcastPoints
    /\ bcast["agent"].pc = "done"
    /\ CASE agent.pc = "b_running" ->
               /\ agent' = [agent EXCEPT !.pc = "cycle"]
               /\ UNCHANGED <<connections, bcast>>
         [] agent.pc = "b_status" ->
               AgentBroadcasts([agent EXCEPT !.pc = "b_report"])
         [] OTHER ->
               /\ agent' = [agent EXCEPT !.pc = "sleep"]
               /\ UNCHANGED <<connections, bcast>>
    /\ UNCHANGED endpoint
    /\ UNCHANGED <<restVars, wsVars, fnVars, cfgVars>>

\* a broadcast raised: inside the try the handler records the error and
\* broadcasts it; anywhere else the exception leaves run()
AG_BroadcastRaised ==
    /\ agent.pc \in BroadcastPoints
    /\ bcast["agent"].pc = "raised"
    /\ IF agent.pc \in {"b_status", "b_report"}
       THEN AgentBroadcasts([agent EXCEPT !.status = "error",
                                          !.last_error = TRUE,
                                          !.pc = "b_error"])
       ELSE /\ agent' = [agent EXCEPT !.pc = "ended"]
            /\ UNCHANGED <<connections, bcast>>
    /\ UNCHANGED endpoint
    /\ UNCHANGED <<restVars, wsVars, fnVars, cfgVars>>

\* run_cycle returned and the report is written
AG_CycleDone ==
    /\ agent.pc = "cycle"
    /\ AgentBroadcasts([agent EXCEPT !.status = "idle", !.pc = "b_status"])
    /\ UNCHANGED endpoint
    /\ UNCHANGED <<restVars, wsVars, fnVars, cfgVars>>

\* run_cycle raised, or write_report did
AG_CycleRaise ==
    /\ agent.pc = "cycle"
    /\ AgentBroadcasts([agent EXCEPT !.status = "error", !.last_error = TRUE,
                                      !.pc = "b_error"])
    /\ UNCHANGED endpoint
    /\ UNCHANGED <<restVars, wsVars, fnVars, cfgVars>>

\* `await asyncio.sleep(interval_seconds)` is over
AG_Wake ==
    /\ agent.pc = "sleep"
    /\ agent' = [agent EXCEPT !.pc = "top"]
    /\ UNCHANGED <<connections, endpoint, bcast>>
    /\ UNCHANGED <<restVars, wsVars, fnVars, cfgVars>>

\* the task is cancelled at the await it is suspended in
AG_Cancel ==
    /\ agent.pc \notin {"top", "ended", "cancelled"}
    /\ agent.pc \in BroadcastPoints => InBroadcast("agent")
    /\ agent' = [agent EXCEPT !.pc = "cancelled"]
    /\ bcast' = [bcast EXCEPT !["agent"].pc =
                    IF agent.pc \in BroadcastPoints THEN "cancelled" ELSE @]
    /\ UNCHANGED <<connections, endpoint>>
    /\ UNCHANGED <<restVars, wsVars, fnVars, cfgVars>>

\* create_app and the agents as main() builds them
InitApp ==
    /\ connections = <<>>
    /\ endpoint = [s \in Clients |-> NoClient]
    /\ bcast = [c \in Callers |-> NoBroadcast]
    /\ agent = NewAgent

\* run(config.watchlist) has been started on a fresh KISWebSocket
InitStream ==
    /\ watchlist = <<"005930", "000660">>
    /\ ws = NoSocket
    /\ subscribed = {}
    /\ approval_key = FALSE
    /\ run = StartConnection(FALSE)
    /\ rtask = [c \in Codes |-> NoTask]
    /\ conn = [n |-> 0, open |-> FALSE, after |-> "none", ended |-> "none",
               sent |-> NoSent, passed |-> FALSE, target |-> {}, since |-> 0,
               raised |-> FALSE, cancelled |-> FALSE, close |-> "none"]

\* ---------------------------------------------------------- specifications
InitClient ==
    /\ token = NoToken
    /\ token_expires = NoTime
    /\ token_lock = FreeLock
    /\ rate_lock = FreeLock
    /\ elapsed \in {0, MonoStep, REQUEST_INTERVAL}
    /\ wall = 0
    /\ task = [t \in Tasks |-> IdleTask]
    /\ refresh = NoRefresh
    /\ throttleLog = NoPass
    /\ unthrottled = {}

\* no call made yet
InitFn == arg = <<>> /\ result = <<>>

\* TRADING_MODE is not set: the default
InitConfig == trading_mode = "paper"

Init == InitClient /\ InitStream /\ InitApp /\ InitFn /\ InitConfig

\* a client of either mode
InitRest == InitClient /\ InitStream /\ InitApp /\ InitFn /\ trading_mode \in TradingModes

\* the upstream issues a token of I with a lifetime of L
TokenStep(I, L) ==
    \/ \E t \in Tasks : GT_Enter(t)
    \/ \E t \in Tasks : GT_Acquired(t)
    \/ \E t \in Tasks, tk \in I, life \in L : GT_RefreshOk(t, tk, life)
    \/ \E t \in Tasks : GT_RefreshFail(t)

\* the upstream answers with a status of S, the clock advances in steps of d
GovernorStep(S, d) ==
    \/ \E t \in Tasks : RR_Throttle(t)
    \/ \E t \in Tasks : RR_ThrottleAcquired(t)
    \/ \E t \in Tasks : RR_ThrottleWake(t)
    \/ \E t \in Tasks : RR_Send(t)
    \/ \E t \in Tasks, s \in S : RR_Response(t, s)
    \/ \E t \in Tasks : RR_NetworkError(t)
    \/ \E t \in Tasks : RR_BackoffWake(t)
    \/ MonoTick(d)

\* a client that has no token yet, or holds one acquired earlier
InitToken ==
    /\ \/ token = NoToken /\ token_expires = NoTime
       \/ token = 1 /\ token_expires = TOKEN_MARGIN
    /\ token_lock = FreeLock
    /\ rate_lock = FreeLock
    /\ elapsed = 0
    /\ wall = 0
    /\ task = [t \in Tasks |-> IdleTask]
    /\ refresh = IF token = NoToken
                 THEN NoRefresh
                 ELSE [NoRefresh EXCEPT !.issued = 0,
                                        !.expires_in = 2 * TOKEN_MARGIN]
    /\ throttleLog = NoPass
    /\ unthrottled = {}
    /\ InitStream /\ InitApp
    /\ InitFn
    /\ InitConfig

\* concurrent get_token() callers
NextToken ==
    \/ \E t \in Tasks : CallGetToken(t)
    \/ TokenStep(TokenIds, ExpiresIn)
    \/ WallTick

SpecToken == InitToken /\ [][NextToken]_vars

\* concurrent _request_with_retry() callers
NextGov ==
    \/ \E t \in Tasks : CallRequest(t)
    \/ GovernorStep(Statuses, MonoStep)

SpecGov == Init /\ [][NextGov]_vars

\* the event loop runs every task that is ready, timers fire, and every
\* request sent gets its response or its error
FairGov ==
    /\ \A t \in Tasks : WF_vars(RR_Throttle(t))
    /\ \A t \in Tasks : WF_vars(RR_ThrottleAcquired(t))
    /\ \A t \in Tasks : WF_vars(RR_ThrottleWake(t))
    /\ \A t \in Tasks : WF_vars(RR_Send(t))
    /\ \A t \in Tasks : WF_vars((\E s \in Statuses : RR_Response(t, s))
                                    \/ RR_NetworkError(t))
    /\ \A t \in Tasks : WF_vars(RR_BackoffWake(t))
    /\ WF_vars(MonoTick(MonoStep))

SpecGovLive == SpecGov /\ FairGov

\* concurrent Rest Client operations
Next ==
    \/ \E t \in Tasks, o \in RestOps : CallOp(t, o)
    \/ TokenStep({1}, {2 * TOKEN_MARGIN})
    \/ GovernorStep(RestStatuses, RestStep)

Spec == InitRest /\ [][Next]_vars

\* the Streaming Client with the watchlist routes
NextWS ==
    \/ WS_ApprovalOk
    \/ WS_ApprovalFail
    \/ WS_ConnectOk
    \/ WS_ConnectFail
    \/ WS_SendOk
    \/ WS_SendFail
    \/ WS_SubscribeWake
    \/ WS_Tick
    \/ WS_CallbackDone
    \/ WS_CallbackRaise
    \/ WS_Clock
    \/ WS_Cancel
    \/ WS_CloseBegin
    \/ WS_CloseEnd
    \/ WS_ReadFail
    \/ WS_OrderlyClose
    \/ WS_ReconnectWake
    \/ \E c \in Codes : Route_Add(c)
    \/ \E c \in Codes : Route_Remove(c)
    \/ \E c \in Codes : RT_Start(c)
    \/ \E c \in Codes : RT_SendOk(c)
    \/ \E c \in Codes : RT_SendFail(c)
    \/ \E c \in Codes : RT_Wake(c)

InitWS == InitClient /\ elapsed = 0 /\ InitStream /\ InitApp /\ InitFn /\ InitConfig

SpecWS == InitWS /\ [][NextWS]_vars

\* subscribe() called again and again, each call after the one before returned
InitSub ==
    /\ InitClient /\ elapsed = 0 /\ InitStream /\ InitApp /\ InitConfig
    /\ arg = <<>> /\ result = NoCall

NextSub ==
    \/ \E q \in CodeLists : Sub_Call(q)
    \/ Sub_Open
    \/ Sub_Lost

SpecSub == InitSub /\ [][NextSub]_vars

\* _parse_price_message on one frame
InitParse ==
    /\ InitClient /\ elapsed = 0 /\ InitStream /\ InitApp /\ InitConfig
    /\ \E f \in Frames :
          arg = [raw |-> Join(f.segs, "|"), segs |-> f.segs, fields |-> f.fields]
    /\ result = Pending

NextParse == Parse

SpecParse == InitParse /\ [][NextParse]_vars

\* get_tr_id on one (operation, mode) pair
InitTrId ==
    /\ InitClient /\ elapsed = 0 /\ InitStream /\ InitApp /\ InitConfig
    /\ arg \in [operation : Operations, mode : Modes]
    /\ result = Pending

NextTrId == LookUp

SpecTrId == InitTrId /\ [][NextTrId]_vars

\* get_daily_prices on one answer
InitDaily ==
    /\ InitClient /\ elapsed = 0 /\ InitStream /\ InitApp /\ InitConfig
    /\ \E rows \in RowLists, rt \in {"0", "1"}, count \in -1 .. MaxCount :
          arg = [data |-> [rt_cd |-> rt, output2 |-> rows], count |-> count]
    /\ result = Pending

NextDaily == GetDailyPrices

SpecDaily == InitDaily /\ [][NextDaily]_vars

\* get_balance on one answer
InitBalance ==
    /\ InitClient /\ elapsed = 0 /\ InitStream /\ InitApp /\ InitConfig
    /\ \E h \in HoldingLists, totals \in TotalsShapes,
          m \in {"get_balance", "get_available_cash"} :
          arg = [method |-> m, output1 |-> h, output2 |-> totals]
    /\ result = Pending

NextBalance ==
    \/ GetBalance
    \/ GetAvailableCash

SpecBalance == InitBalance /\ [][NextBalance]_vars

\* _execute_single_order on one order
InitExecute ==
    /\ InitClient /\ elapsed = 0 /\ InitStream /\ InitApp /\ InitConfig
    /\ \E a \in OrderActions, k \in OrderOutcomes, m \in BOOLEAN,
          b \in BroadcastOutcomes :
          arg = [order |-> [action |-> a], kis |-> k, ws_manager |-> m,
                 broadcast |-> b]
    /\ result = Pending

NextExecute == ExecuteSingleOrder

SpecExecute == InitExecute /\ [][NextExecute]_vars

\* the dashboard's clients, an agent and the price callback
NextApp ==
    \/ \E s \in Clients : EP_Connect(s)
    \/ \E s \in Clients : EP_Accepted(s)
    \/ \E s \in Clients : EP_ClientGone(s)
    \/ \E s \in Clients : EP_Disconnect(s)
    \/ \E c \in Callers : BC_SendOk(c)
    \/ \E c \in Callers : BC_SendFail(c)
    \/ Tick_Broadcast
    \/ AG_MarketClosed
    \/ AG_MarketOpen
    \/ AG_BroadcastReturned
    \/ AG_BroadcastRaised
    \/ AG_CycleDone
    \/ AG_CycleRaise
    \/ AG_Wake
    \/ AG_Cancel

SpecApp == InitWS /\ [][NextApp]_vars

\* time passes, and the event loop resumes run() when its sleep is over
SpecWSLive == SpecWS /\ WF_vars(WS_Clock) /\ WF_vars(WS_ReconnectWake)

\* ================================================================== claims
Last(q) == q[Len(q)]

\* the logical requests made directly through _request_with_retry
Requests == {t \in Tasks : task[t].op = "request"}

C2_MinInterval ==
    throttleLog.gap # NoTime => throttleLog.gap >= REQUEST_INTERVAL

C2_Witness ==
    /\ throttleLog.gap >= REQUEST_INTERVAL
    /\ \A t \in Tasks : task[t].nThrottle >= 1
    /\ \E t \in Tasks : task[t].nThrottle >= 2

\* C3: every HTTP request of the Rest Client, the token refresh included, is
\* preceded by its own pass through the throttle.
C3_EverySendThrottled == unthrottled = {}

\* C4: within one _request_with_retry call every request is preceded by
\* exactly one throttle pass of its own: the passes made equal the requests
\* sent, plus the one pass whose request is about to go out.
C4_PassPerAttempt ==
    \A t \in Requests :
        /\ task[t].nThrottle =
              task[t].nSent + (IF task[t].pc = "rr_send" THEN 1 ELSE 0)
        /\ task[t].passed = (task[t].pc = "rr_send")
        /\ task[t].pc = "rr_resp" => task[t].nSent = task[t].attempt + 1

C4_Witness ==
    \E t \in Requests :
        task[t].pc = "idle" /\ task[t].nSent = 3 /\ task[t].nThrottle = 3

\* C5: a response below 500 ends the call at once, with that response as the
\* result, no further attempt and no backoff sleep; only a 5xx is followed by
\* another attempt.
C5_ReturnedAtOnce ==
    \A t \in Requests :
        LET r == task[t]
            n == Len(r.resps)
        IN  /\ \A i \in 1 .. n - 1 : r.resps[i] >= 500
            /\ (n > 0 /\ Last(r.resps) < 500) =>
                  /\ r.pc = "idle"
                  /\ r.out = [type |-> "return", val |-> Last(r.resps)]
                  /\ r.nSent = n
                  /\ Len(r.waits) = n - 1

C5_Witness ==
    \E t \in Requests :
        task[t].resps = <<503, 404>> /\ task[t].out.val = 404

\* C6: when every attempt is answered with a 5xx, the call sends exactly
\* _MAX_RETRIES requests and then raises the error of the last response; it
\* never sends more and never returns.
C6_ExhaustedRaises ==
    \A t \in Requests :
        LET r == task[t]
            n == Len(r.resps)
        IN  /\ r.nSent <= MAX_RETRIES
            /\ (r.pc = "idle" /\ n > 0 /\ r.nSent = n
                  /\ \A i \in 1 .. n : r.resps[i] >= 500) =>
                  /\ r.nSent = MAX_RETRIES
                  /\ r.out = [type |-> "raise", val |-> Last(r.resps)]

C6_Witness ==
    \E t \in Requests :
        /\ task[t].pc = "idle"
        /\ task[t].resps = <<503, 503, 503>>
        /\ task[t].out = [type |-> "raise", val |-> 503]

\* C7 as stated: a request answered 503 and then 200 is retried exactly
\* twice and returns the success.
C7_RetriedTwice ==
    \A t \in Requests :
        LET r == task[t]
        IN  (r.pc = "idle" /\ Len(r.resps) >= 2 /\ r.resps[1] = 503
               /\ \A i \in 2 .. Len(r.resps) : r.resps[i] = 200) =>
                  /\ r.nSent - 1 = 2
                  /\ r.out = [type |-> "return", val |-> 200]

\* C7 as amended: a request answered 503 and then 200 is retried exactly
\* once (two requests in all) and returns that first success.
C7_RetriedOnce ==
    \A t \in Requests :
        LET r == task[t]
        IN  (Len(r.resps) >= 2 /\ r.resps[1] = 503 /\ r.resps[2] = 200) =>
                  /\ r.pc = "idle"
                  /\ r.resps = <<503, 200>>
                  /\ r.nSent - 1 = 1
                  /\ r.out = [type |-> "return", val |-> 200]

C7_Witness ==
    \E t \in Requests :
        task[t].pc = "idle" /\ task[t].resps = <<503, 200>>

\* C8: the delay after the k-th failed attempt (from 0) is
\* _RETRY_BACKOFF * 2^k: 0.5 s, 1.0 s, 2.0 s, with nothing random in it, one
\* delay per failed attempt, and the sleep lasts that long.
BackoffSchedule == <<500, 1000, 2000>>

C8_BackoffSchedule ==
    \A t \in Requests :
        LET r == task[t]
        IN  /\ Len(r.waits) <= Len(BackoffSchedule)
            /\ r.waits = SubSeq(BackoffSchedule, 1, Len(r.waits))
            /\ Len(r.waits) = Cardinality({i \in 1 .. Len(r.resps) : r.resps[i] >= 500})
            /\ r.pc = "rr_backoff" =>
                  /\ r.attempt = Len(r.waits) - 1
                  /\ r.sleep <= Last(r.waits)

C8_Witness ==
    \E t \in Requests : task[t].waits = <<500, 1000, 2000>>

\* C9: when a refresh fails while callers wait for it, each of them gets the
\* failure, and none of them sends a refresh request of its own.
C9_FailureShared ==
    \A t \in Tasks :
        task[t].owed =>
            /\ task[t].pc # "tok_post"
            /\ ~(task[t].pc = "idle" /\ task[t].out.type = "return")

\* C10: on every socket opened after a failure, when the initial subscribe
\* pass has returned, one subscribe message has been sent on that socket for
\* every code of the watchlist, and never more than one for any code.
C10_ResubscribedOnce ==
    (conn.n >= 2 /\ conn.after = "failure") =>
        /\ \A c \in Codes : conn.sent[c] <= 1
        /\ conn.passed => \A c \in conn.target : conn.sent[c] = 1

\* C11: after a connection was lost, the tick callback is not invoked before
\* the initial subscribe pass on the next socket has returned with a subscribe
\* message sent on that socket for every code of the watchlist.
C11_NoTickBeforeResubscribed ==
    (conn.n >= 2 /\ run.pc = "dispatch") =>
        /\ conn.passed
        /\ \A c \in conn.target : conn.sent[c] >= 1

\* C12: the tracking set is empty when a socket is opened, whatever ended the
\* connection before it: as long as no subscribe message has been sent on the
\* open socket, the set holds no code.
C12_EmptyAtOpen ==
    (ws # NoSocket /\ conn.open /\ conn.sent = NoSent) => subscribed = {}

\* C13: every failure of run() (approval-key request, socket open, send or
\* read on the socket) leaves the client disconnected, its socket reference
\* cleared and its tracking set empty; it then sleeps RECONNECT_DELAY and
\* attempts to connect again, however many failures came before: unless the
\* task is cancelled, a failure is always followed by a connection attempt.
Failure == WS_ApprovalFail \/ WS_ConnectFail \/ WS_SendFail \/ WS_ReadFail

Attempting == run.pc \in {"approval", "connecting"}

C13_ReconnectsAfterFailure ==
    /\ [][Failure => run'.pc = "backoff" /\ run'.sleep = RECONNECT_DELAY]_vars
    /\ [](run.pc = "backoff" => ws = NoSocket /\ subscribed = {})
    /\ [][(run.pc = "backoff" /\ run'.pc \notin {"backoff", "cancelled"}) =>
             conn.since >= RECONNECT_DELAY /\ Attempting']_vars
    /\ (run.pc = "backoff") ~> (Attempting \/ conn.cancelled)

C13_Witness ==
    /\ run.pc = "connecting"
    /\ conn.n >= 1
    /\ conn.ended = "failure"
    /\ conn.since >= RECONNECT_DELAY

\* C14: the end of a tick's dispatch, by the callback returning or by its
\* raising (the cancellation of the task apart), leaves the socket and its
\* connection as they were and the tracking set unchanged, and run() is back
\* in the read loop; and after the callback raised, the next tick frame of
\* that socket, while it is open, is taken and dispatched as before.
C14_CallbackIsolated ==
    /\ [][(run.pc = "dispatch" /\ run'.pc \notin {"dispatch", "cancelled"}) =>
             /\ run'.pc = "reading"
             /\ ws' = ws
             /\ subscribed' = subscribed
             /\ conn'.open = conn.open]_vars
    /\ []((conn.raised /\ conn.open /\ run.pc = "reading") => ENABLED WS_Tick)

C14_Witness ==
    conn.raised /\ conn.open /\ run.pc = "dispatch" /\ subscribed # {}

\* C15: a subscribe() call sends no message for a code that is in the
\* tracking set and one message for each other code of its argument; a call
\* whose codes are all tracked, and so the second of two calls with the same
\* codes on one socket, sends nothing and leaves the set as it was; so does
\* any call made while there is no socket.
C15_Idempotent ==
    result.made =>
        /\ \A i \in DOMAIN result.msgs : result.msgs[i] \notin result.had
        /\ \A i, j \in DOMAIN result.msgs :
              result.msgs[i] = result.msgs[j] => i = j
        /\ result.sock # NoSocket =>
              /\ Range(result.msgs) = Range(arg) \ result.had
              /\ subscribed = result.had \cup Range(arg)
        /\ Range(arg) \subseteq result.had =>
              result.msgs = <<>> /\ subscribed = result.had
        /\ (result.prev.made /\ result.prev.q = arg) =>
              result.msgs = <<>> /\ subscribed = result.had
        /\ result.sock = NoSocket =>
              result.msgs = <<>> /\ subscribed = result.had

C15_Witness ==
    /\ result.made /\ result.sock # NoSocket
    /\ result.prev.made /\ result.prev.q = arg
    /\ result.prev.msgs # <<>>
    /\ result.msgs = <<>>

\* C16: once the run task has been cancelled, in whatever state, its socket
\* is closed, and run() has ended: it makes no connection attempt, opens no
\* socket and sends nothing any more.
C16_CancelStops ==
    /\ [](conn.cancelled => run.pc = "cancelled" /\ ~conn.open)
    /\ [][conn.cancelled => run' = run /\ conn'.n = conn.n
                            /\ conn'.sent = conn.sent]_vars

C16_Witness ==
    conn.cancelled /\ conn.ended = "cancelled" /\ ws # NoSocket /\ conn.n >= 2

\* C17: once close() has been called while run() is active, the client opens
\* no further socket and sends no further subscribe message.
C17_CloseIsTerminal ==
    [][(conn.close # "none" /\ ~conn.cancelled) =>
          conn'.n = conn.n /\ conn'.sent = conn.sent]_vars

\* C18: a frame yields a tick exactly when it has at least 4 segments, the
\* first is "0", the second is "H0STCNT0" and the fourth has at least 14
\* fields; otherwise it yields nothing; the tick's stock_code is field 0 and
\* its price field 2 of the payload, as they stand in the frame.
Decodable ==
    /\ Len(arg.segs) >= 4
    /\ arg.segs[1] = <<"0">>
    /\ arg.segs[2] = <<"H0STCNT0">>
    /\ Len(arg.fields) >= 14

C18_ParseIff ==
    result # Pending =>
        /\ result.state = "tick" <=> Decodable
        /\ ~Decodable => result = NoTick
        /\ Decodable =>
              /\ result.tick.stock_code = arg.fields[1]
              /\ result.tick.price = arg.fields[3]

C18_Witness ==
    /\ result.state = "tick"
    /\ Len(arg.segs) = 5
    /\ Len(arg.fields) = 14
    /\ result.tick.price = <<>>
    /\ result.tick.stock_code = <<"0">>

\* C19: every tick carries the trade time of the frame, payload field 1,
\* next to stock code, price, change sign, amount and rate, open, high, low
\* and volume.
C19_TickHasTime ==
    result.state = "tick" =>
        /\ DOMAIN result.tick =
              {"stock_code", "time", "price", "change_sign", "change_amount",
               "change_rate", "open", "high", "low", "volume"}
        /\ result.tick["time"] = arg.fields[F_TIME + 1]

\* an order request of the call in progress (or the latest one) went out
\* the headers of the order requests a call has sent
Orders(r) == IF r.op \in {"buy", "sell"} THEN r.wire ELSE <<>>

OrderSent(r) == Orders(r) # <<>>

\* C20: in every buy or sell submission the signing request has completed
\* successfully before an order request is sent; every order request sent
\* carries the hash the signing request returned in its hashkey header, the
\* token get_token returned as bearer token and the transaction-type id of
\* the side; when the signing request or the token acquisition failed, no
\* order request is sent.
C20_SignedBeforeOrder ==
    \A t \in Tasks :
        LET r == task[t]
        IN  /\ Orders(r) # <<>> =>
                /\ r.op \in {"buy", "sell"}
                /\ r.signing = "ok"
                /\ r.bearer = "ok"
                /\ r.hashkey \in HashIds
                /\ \A i \in 1 .. Len(Orders(r)) :
                       /\ Orders(r)[i].hashkey = r.hashkey
                       /\ Orders(r)[i].authorization \in TokenIds
                       /\ Orders(r)[i].tr_id = TR_IDS[<<r.op, trading_mode>>]
            /\ (r.signing = "failed" \/ r.bearer = "failed") =>
                   Orders(r) = <<>>

\* one order went out and was retried while another one failed at signing and
\* sent nothing
C20_Witness ==
    \E t, u \in Tasks :
        /\ OrderSent(task[t])
        /\ Len(Orders(task[t])) >= 2
        /\ task[u].op \in {"buy", "sell"}
        /\ task[u].signing = "failed"
        /\ task[u].out.type = "raise"
\* C21: a call that parsed a 2xx answer whose rt_cd is not "0" has ended by
\* raising a failure that carries the upstream message code, whatever the
\* operation (quote, daily bars, balance, available cash, buy, sell).
C21_ReturnCodeGate ==
    \A t \in Tasks :
        LET r == task[t]
        IN  r.reply \notin {"", "0"} =>
                /\ r.pc = "idle"
                /\ r.out.type = "raise"
                /\ r.msg # ""
\* C22: within one buy or sell call the order request is sent at most once,
\* whatever the upstream answers.
C22_OrderSentOnce ==
    \A t \in Tasks : Len(Orders(task[t])) <= 1
\* the one call of the specification has been made
Called == result # Pending

TradingOperations == {"buy", "sell", "modify", "balance", "available_cash"}

OtherMode(mode) == IF mode = "paper" THEN "live" ELSE "paper"

\* C23: for price and daily_price get_tr_id returns the wildcard entry
\* whatever the mode; for buy, sell, modify, balance and available_cash an
\* identifier it returns is the entry stored for exactly the requested mode,
\* and differs from the entry of the other mode.
C23_WildcardOrExactMode ==
    Called =>
        /\ arg.operation \in {"price", "daily_price"} =>
               /\ result.out.state = "return"
               /\ result.out.tr_id = TR_IDS[<<arg.operation, "any">>]
        /\ (arg.operation \in TradingOperations /\ result.out.state = "return") =>
               /\ arg.mode \in {"paper", "live"}
               /\ result.out.tr_id = TR_IDS[<<arg.operation, arg.mode>>]
               /\ result.out.tr_id # TR_IDS[<<arg.operation, OtherMode(arg.mode)>>]
        /\ (arg.operation \in TradingOperations /\ arg.mode \in {"paper", "live"}) =>
               result.out.state = "return"

\* a quote lookup with a mode the registry does not know returned
C23_Witness ==
    /\ Called
    /\ arg.operation = "daily_price" /\ arg.mode = "demo"
    /\ result.out.state = "return"

\* C24: a lookup of a pair the registry does not define fails with a
\* ConfigurationError, returns no identifier and leaves the registry as it
\* was.
C24_UndefinedPairFails ==
    (Called /\ <<arg.operation, "any">> \notin DOMAIN TR_IDS
            /\ <<arg.operation, arg.mode>> \notin DOMAIN TR_IDS) =>
        /\ result.out.state = "raise"
        /\ result.out.error = "ConfigurationError"
        /\ result.out.tr_id = ""
        /\ result.registry = TR_IDS
\* C25: for a count >= 0, get_daily_prices returns the first
\* min(count, number of upstream rows) rows, in upstream order.
C25_FirstRowsInOrder ==
    (Called /\ result.state = "return" /\ arg.count >= 0) =>
        LET rows == arg.data.output2
            n == Min(arg.count, Len(rows))
        IN  /\ Len(result.rows) = n
            /\ Len(result.rows) <= arg.count
            /\ \A i \in 1 .. n : result.rows[i] = DailyPrice(rows[i])

\* more rows than asked for: cut; and the two kept are different rows
C25_Witness ==
    /\ Called /\ result.state = "return"
    /\ arg.count = 2 /\ Len(arg.data.output2) = 3
    /\ Len(result.rows) = 2
    /\ result.rows[1] # result.rows[2]
\* C26: the AccountBalance obtained for output2 = [T] is the one obtained for
\* output2 = T, the holdings being the same: whichever of the two shapes the
\* answer had, the result equals the result for the other shape.
C26_ListOrBareObject ==
    (Called /\ arg.method = "get_balance") =>
        /\ (arg.output2.type = "list" /\ Len(arg.output2.list) = 1) =>
               result = AccountBalance(
                           [arg EXCEPT !.output2 = AsDict(arg.output2.list[1])])
        /\ arg.output2.type = "dict" =>
               result = AccountBalance(
                           [arg EXCEPT !.output2 = AsList(<<arg.output2.dict>>)])

\* a one-element array whose totals were read, one key taken from the
\* record and one defaulted, next to two holdings
C26_Witness ==
    /\ Called /\ result.state = "return" /\ arg.method = "get_balance"
    /\ arg.output2.type = "list" /\ Len(arg.output2.list) = 1
    /\ result.total_evlu_amt = "1000"
    /\ arg.output2.list[1].evlu_pfls_smtl_amt = NoField
    /\ result.total_evlu_pfls_amt = "0"
    /\ Len(result.items) = 2
\* the tasks inside `async with self._token_lock` / `self._rate_lock`
InTokenSection == {t \in Tasks : task[t].pc = "tok_post"}
InFlight == {t \in Tasks : task[t].pc = "rr_resp"}

\* C27: at most one task is inside the token-refresh section, and it holds
\* the token lock; the throttle lock is held only by a task inside
\* _throttle (handed the lock, or sleeping out the interval), never by one
\* whose request is about to go out, is awaiting its response or backs off.
C27_LocksOnlyWhereNeeded ==
    /\ Cardinality(InTokenSection) <= 1
    /\ \A t \in InTokenSection : token_lock.holder = t
    /\ \A t \in Tasks :
          rate_lock.holder = t => task[t].pc \in {"thr_wait", "thr_sleep"}
    /\ \A t \in Tasks :
          task[t].pc \in {"rr_send", "rr_resp", "rr_backoff"} =>
              /\ rate_lock.holder # t
              /\ token_lock.holder # t

\* two requests await their responses at once, the second one sent after its
\* own throttle pass while the first was in flight
C27_Witness ==
    /\ Cardinality(InFlight) >= 2
    /\ rate_lock = FreeLock
    /\ throttleLog.gap # NoTime
\* the task moves on from pc p in this step
Leaves(t, p) == task[t].pc = p /\ task'[t].pc # p

\* C28: a refresh request goes out only when no token is cached or the
\* clock has reached the recorded expiry; the recorded expiry of a cached
\* token is the time it was stored plus the declared lifetime minus 60 s;
\* and a get_token() call that tests the cache, on entry or when handed the
\* lock, before that expiry returns the cached token and sends nothing.
C28_RefreshOnlyWhenDue ==
    /\ [][\A t \in Tasks :
             (task[t].pc # "tok_post" /\ task'[t].pc = "tok_post") =>
                 (token = NoToken \/ ~(wall < token_expires))]_vars
    /\ [](token # NoToken =>
             /\ token_expires # NoTime
             /\ token_expires = refresh.issued + refresh.expires_in - 60)
    /\ [][\A t \in Tasks :
             (/\ Leaves(t, "gt_enter") \/ Leaves(t, "tok_wait")
              /\ token # NoToken /\ wall < token_expires) =>
                 /\ task'[t].pc = "idle"
                 /\ task'[t].out = [type |-> "return", val |-> token]
                 /\ refresh'.sent = refresh.sent
                 /\ unthrottled' = unthrottled
                 /\ token' = token /\ token_expires' = token_expires]_vars

\* a token stored after the clock had advanced is unexpired, and a call made
\* after the refresh got it from the cache
C28_Witness ==
    /\ token # NoToken /\ wall < token_expires
    /\ refresh.issued > 0
    /\ refresh.sent = 1
    /\ \E t \in Tasks :
          /\ t \notin refresh.batch
          /\ task[t].pc = "idle" /\ task[t].calls = 1
          /\ task[t].out = [type |-> "return", val |-> token]
\* C29: while a socket is open, every code of the tracking set has had a
\* subscribe message sent on that socket.
C29_TracksCurrentSocketOnly ==
    conn.open => \A c \in subscribed : conn.sent[c] >= 1
\* the registry entry a request of operation o has to carry
ModeEntry(o, mode) == TR_IDS[<<TrIdKey(o), mode>>]

\* C30: every order request and every balance request (get_balance,
\* get_available_cash) sent carries as tr_id the registry entry of its
\* operation for the configured trading mode, and so none of the entries
\* stored for the other mode.
C30_ModeMatchesConfig ==
    \A t \in Tasks :
        LET r == task[t]
        IN  r.op \in {"buy", "sell", "balance", "available_cash"} =>
                \A i \in 1 .. Len(r.wire) :
                    /\ r.wire[i].tr_id = ModeEntry(r.op, trading_mode)
                    /\ \A o \in TradingOperations :
                          r.wire[i].tr_id # TR_IDS[<<o, OtherMode(trading_mode)>>]

\* a live client has sent an order request and a balance request
C30_Witness ==
    /\ trading_mode = "live"
    /\ \E t, u \in Tasks :
          /\ task[t].op = "sell" /\ task[t].wire # <<>>
          /\ task[u].op = "available_cash" /\ task[u].wire # <<>>
\* C31: when an attempt of _request_with_retry ends with no response (the
\* transport raised), the call is over in that very step, raising that
\* failure, with no backoff sleep added and no further request; a call that
\* ended so has sent one request more than it got responses and slept once
\* per response.
C31_NetworkFailureFatal ==
    /\ [][\A t \in Requests :
             (/\ task[t].pc = "rr_resp" /\ task'[t].pc # "rr_resp"
              /\ task'[t].resps = task[t].resps) =>
                 /\ task'[t].pc = "idle"
                 /\ task'[t].out = [type |-> "raise", val |-> 0]
                 /\ task'[t].waits = task[t].waits
                 /\ task'[t].nSent = task[t].nSent]_vars
    /\ [](\A t \in Requests :
             (task[t].pc = "idle" /\ task[t].out = [type |-> "raise", val |-> 0]) =>
                 /\ task[t].nSent = Len(task[t].resps) + 1
                 /\ Len(task[t].waits) = Len(task[t].resps)
                 /\ \A i \in 1 .. Len(task[t].resps) : task[t].resps[i] >= 500)

\* the transport failed on the second attempt, after one 503 and one sleep
C31_Witness ==
    \E t \in Requests :
        /\ task[t].pc = "idle"
        /\ task[t].out = [type |-> "raise", val |-> 0]
        /\ task[t].resps = <<503>>
        /\ task[t].nSent = 2
\* C32: whatever the shape of output2 (absent, an empty list, a one-element
\* list, a bare object), get_balance and get_available_cash return a
\* result for an answer that passed the gate.
C32_AnyShapeTolerated ==
    Called => result.state = "return"
\* C33: on any one socket at most one subscribe message is sent per code,
\* however the initial subscribe pass of run() and the subscribe tasks of
\* the add route interleave.
C33_OneMessagePerCode ==
    \A c \in Codes : conn.sent[c] <= 1
\* C34: whenever run() starts a connection attempt after a connection has
\* ended, at least RECONNECT_DELAY has passed since that end, whether the
\* connection ended with an exception or with an orderly close.
C34_DelayBeforeReconnect ==
    [][(~Attempting /\ Attempting' /\ conn'.n >= 1) =>
          conn'.since >= RECONNECT_DELAY]_vars
\* C35: in a call of _request_with_retry a backoff sleep happens only
\* between two attempts: a call that is over has slept once less than it has
\* sent requests, so nothing delays the error after the last failed attempt.
C35_SleepsBetweenAttempts ==
    \A t \in Requests :
        (task[t].pc = "idle" /\ task[t].nSent >= 1) =>
            Len(task[t].waits) = task[t].nSent - 1
\* C36: a token refresh that fails leaves the cached token and its expiry as
\* they were and gives the refresh lock up: the failed caller neither holds
\* nor waits for the lock, the lock is free unless a waiter was handed it, and
\* at no time is the lock held by a caller that is not inside get_token.
C36_FailedRefreshLeavesState ==
    /\ [][\A t \in Tasks :
             (/\ task[t].pc = "tok_post" /\ task'[t].pc = "idle"
              /\ task'[t].out.type = "raise") =>
                 /\ token' = token
                 /\ token_expires' = token_expires
                 /\ token_lock'.holder # t
                 /\ \A i \in 1 .. Len(token_lock'.waiters) :
                        token_lock'.waiters[i] # t
                 /\ token_lock.waiters = <<>> => token_lock' = FreeLock]_vars
    /\ [](token_lock.holder # 0 =>
             task[token_lock.holder].pc \in {"tok_post", "tok_wait"})

\* a refresh failed with a token in the cache, which is still there, and
\* another caller is in a new refresh
C36_Witness ==
    \E t, u \in Tasks :
        /\ task[t].pc = "idle" /\ task[t].out = [type |-> "raise", val |-> 0]
        /\ refresh.failed
        /\ token = 1 /\ token_expires = TOKEN_MARGIN
        /\ task[u].pc = "tok_post" /\ token_lock.holder = u
\* C37: _execute_single_order returns result "success", or broadcasts
\* trade_executed with status "filled", only for an order whose response
\* carries the return code "0".
C37_SuccessOnlyWhenAccepted ==
    Called =>
        ((\/ result.result = "success"
          \/ \E i \in 1 .. Len(result.events) :
                 result.events[i].status = "filled") =>
            (arg.kis.type = "return" /\ arg.kis.rt_cd = "0"))
\* C38: no call of broadcast() raises, and a call that returned has left
\* none of the connections whose send failed in the list and has sent to
\* every connection that was registered from its start to its end.
C38_BroadcastSafe ==
    \A c \in Callers :
        /\ bcast[c].pc # "raised"
        /\ bcast[c].pc = "done" =>
              /\ \A s \in bcast[c].failed : ~Has(connections, s)
              /\ bcast[c].through \subseteq bcast[c].sent \cup bcast[c].failed
\* C39: run() ends only by cancellation: no exception leaves it, the status
\* is one of idle, running and error, and it is "running" only from the start
\* of a cycle to its end.
C39_EndsOnlyByCancellation ==
    /\ agent.pc # "ended"
    /\ agent.status \in {"idle", "running", "error"}
    /\ agent.status = "running" => agent.pc \in {"b_running", "cycle", "cancelled"}
AtThrottle(t) == task[t].pc \in {"rr_throttle", "thr_wait", "thr_sleep"}

\* C40: under fair scheduling, with every request answered in the end, a
\* call of _request_with_retry never sends more than MAX_RETRIES requests
\* and always ends, and a task that is at the throttle always gets past it
\* to the sending of its request.
C40_TerminatesAndNoStarvation ==
    /\ [](\A t \in Requests : task[t].nSent <= MAX_RETRIES)
    /\ \A t \in Tasks : (task[t].pc # "idle") ~> (task[t].pc = "idle")
    /\ \A t \in Tasks : AtThrottle(t) ~> (task[t].pc = "rr_send")

\* one call is at its last request while the other task queues for the
\* rate lock
C40_Witness ==
    \E t, u \in Requests :
        /\ task[t].nSent = MAX_RETRIES - 1 /\ task[t].pc = "thr_sleep"
        /\ task[u].pc = "thr_wait"
        /\ rate_lock.holder = t /\ rate_lock.waiters = <<u>>
====
